---- MODULE Spec2Model ----
(***************************************************************************)
(* StaffFlow: the simulation and rebalancing core.                         *)
(*                                                                         *)
(*   server/sampleData.ts        STATIC_STAFF, Patient                     *)
(*   server/rebalancer.ts        assignPatientsToNurses,                   *)
(*                               generateRebalancingSuggestions,           *)
(*                               applySuggestion                           *)
(*   server/simulationEngine.ts  simulationState and its operations        *)
(*                                                                         *)
(* A patient is [id, acuity, unit, requiredSkills]; its id                 *)
(* `patient-${Date.now()}-${i}` is the pair <<clock value, i>>.  The       *)
(* display name, the condition text and the assignedNurseId back-reference *)
(* decide nothing in the code modelled here and are left out.  A nurse id  *)
(* "nurse-00k" is the number k.  An assignment record carries nurseId,     *)
(* unit, patients, workload, isOverloaded and alert; its qualifications,   *)
(* maxWorkload and maxPatients are copied unchanged from the roster entry  *)
(* of nurseId and are read from STATIC_STAFF.  A workload snapshot keeps   *)
(* its tick and the key set of its nurseWorkloads record.                  *)
(***************************************************************************)
EXTENDS Integers, Sequences, FiniteSets, TLC

VARIABLES
    simulationState,  \* the module-level singleton of simulationEngine.ts
    now,              \* the wall clock read by Date.now() and new Date()
    lastOp,           \* history: the operation called last
    initialized,      \* history: initializeSimulation has run at least once
    pc,               \* position of the pure-function harness
    callInput,        \* harness: the argument object as passed
    callAfter,        \* harness: the same argument object after the call
    callResult        \* harness: the value returned

vars == <<simulationState, now, lastOp, initialized, pc, callInput, callAfter, callResult>>

(***************************************************************************)
(* Bounds of the model.                                                    *)
(***************************************************************************)
MaxInit == 1        \* initialize(n) and reset(n) are called with n in 0..MaxInit
MaxTick == 2        \* ticks are taken while the counter is below MaxTick
MaxClock == 1       \* the clock takes the values 0..MaxClock
MaxPop == 4         \* a tick admits only while the population stays within MaxPop
MaxEvents == 1      \* discharge, drift and transfer rolls that hit, per tick
AcuityKinds == 2    \* random acuities are drawn from the AcuityKinds highest levels
UnitKinds == 1      \* admission units are drawn from the last UnitKinds units
QuietEvents == 0    \* rolls that hit per tick in the ward and the long-run specifications
WardInit == 9       \* the ward specification initialises with WardInit patients
WardHigh == 2       \* of which at most WardHigh are not at acuity 4
WardTick == 2       \* ticks of the ward specification
LongInit == 0       \* the long-run specification initialises with 0..LongInit patients
LongTick == 51      \* ticks of the long-run specification
InitPop == 9        \* initialize(n) on its own is called with n in 0..InitPop, and with 30
InitVaried == 1     \* its acuity draws are all alike but for at most InitVaried of the first InitPop
DriftPop == 2       \* population cap of the drift specification
MetricCount == 5    \* patients per record in an argument of calculateBalanceMetric
CallPop == 4        \* patients behind an argument of generateRebalancingSuggestions
CallUnitKinds == 2  \* their units are drawn from the last CallUnitKinds units
ApplyPop == 2       \* patients behind an argument of applySuggestion
AssignPop == 3      \* patients in an argument of assignPatientsToNurses
SuggestPop == 20    \* patients behind an argument of generateRebalancingSuggestions, all levels
AutoInit == 0       \* the schedule specification initialises with 0..AutoInit patients
AutoPop == 9        \* its ticks admit only while the population stays within AutoPop,
AdmitTicks == 3     \* only in the first AdmitTicks ticks,
AdmitKinds == 3     \* and patients of the AdmitKinds highest acuity levels
AutoTick == 21      \* ticks of the schedule specification
SweepTick == 1      \* ticks of the sweep specification
WidePop == 22       \* patients in an argument of assignPatientsToNurses, all levels
ApplyWidePop == 8   \* patients behind an argument of applySuggestion called on whole lists
DecayTick == 40     \* the decay's numbers are computed for the ticks 1..DecayTick
GatherKinds == 1    \* the last GatherKinds units are those a whole list may be in
ReassignPop == 4    \* patients per unit in an argument of reassignStaffToUnits

(***************************************************************************)
(* sampleData.ts                                                           *)
(***************************************************************************)
Units == <<"ICU", "ER", "MEDSURG", "PEDS">>

STATIC_STAFF == <<
    [id |-> 1,  qualifications |-> {"ICU", "ER"},            maxPatients |-> 3, maxWorkload |-> 8,  unit |-> "ICU"],
    [id |-> 2,  qualifications |-> {"ICU", "MEDSURG"},       maxPatients |-> 4, maxWorkload |-> 9,  unit |-> "ICU"],
    [id |-> 3,  qualifications |-> {"ER", "MEDSURG"},        maxPatients |-> 5, maxWorkload |-> 10, unit |-> "ER"],
    [id |-> 4,  qualifications |-> {"ER", "ICU"},            maxPatients |-> 4, maxWorkload |-> 8,  unit |-> "ER"],
    [id |-> 5,  qualifications |-> {"MEDSURG", "PEDS"},      maxPatients |-> 4, maxWorkload |-> 8,  unit |-> "MEDSURG"],
    [id |-> 6,  qualifications |-> {"PEDS", "MEDSURG"},      maxPatients |-> 3, maxWorkload |-> 7,  unit |-> "PEDS"],
    [id |-> 7,  qualifications |-> {"ICU", "ER", "MEDSURG"}, maxPatients |-> 4, maxWorkload |-> 9,  unit |-> "ICU"],
    [id |-> 8,  qualifications |-> {"MEDSURG", "ER"},        maxPatients |-> 5, maxWorkload |-> 10, unit |-> "MEDSURG"],
    [id |-> 9,  qualifications |-> {"PEDS", "MEDSURG"},      maxPatients |-> 4, maxWorkload |-> 8,  unit |-> "PEDS"],
    [id |-> 10, qualifications |-> {"ER", "ICU"},            maxPatients |-> 3, maxWorkload |-> 8,  unit |-> "ER"] >>

getStaffById(id) == STATIC_STAFF[CHOOSE k \in DOMAIN STATIC_STAFF : STATIC_STAFF[k].id = id]

\* The Patient object built at initialisation and at admission.
Patient(clock, i, unit, acuity) ==
    [id |-> <<clock, i>>, acuity |-> acuity, unit |-> unit, requiredSkills |-> <<unit>>]

(***************************************************************************)
(* Helpers standing for Array.prototype.reduce / filter / indexOf.         *)
(***************************************************************************)
RECURSIVE SumAcuity(_)
SumAcuity(ps) == IF ps = <<>> THEN 0 ELSE ps[1].acuity + SumAcuity(Tail(ps))

RECURSIVE SumWorkload(_)
SumWorkload(as) == IF as = <<>> THEN 0 ELSE as[1].workload + SumWorkload(Tail(as))

Min2(a, b) == IF a < b THEN a ELSE b
Max2(a, b) == IF a > b THEN a ELSE b

\* 1, 2, ..., Len(s): the positions of an array
Indices(s) == [k \in 1..Len(s) |-> k]

CountId(ps, id) == Cardinality({k \in DOMAIN ps : ps[k].id = id})

(***************************************************************************)
(* rebalancer.ts: assignPatientsToNurses                                   *)
(***************************************************************************)
\* [...patients].sort((a, b) => b.acuity - a.acuity): a stable sort, highest
\* acuity first; patients of equal acuity keep their input order.
RECURSIVE SortByAcuityDesc(_)
SortByAcuityDesc(ps) ==
    IF ps = <<>> THEN <<>>
    ELSE LET top == CHOOSE a \in {ps[k].acuity : k \in DOMAIN ps} :
                        \A k \in DOMAIN ps : ps[k].acuity <= a
         IN  SelectSeq(ps, LAMBDA p : p.acuity = top)
                 \o SortByAcuityDesc(SelectSeq(ps, LAMBDA p : p.acuity # top))

\* staff.map(nurse => ({...nurse, assignedPatients: [], currentWorkload: 0}))
StaffWithWorkload(staff) ==
    [k \in DOMAIN staff |->
        [id |-> staff[k].id, qualifications |-> staff[k].qualifications,
         maxPatients |-> staff[k].maxPatients, maxWorkload |-> staff[k].maxWorkload,
         unit |-> staff[k].unit, assignedPatients |-> <<>>, currentWorkload |-> 0]]

\* variant: the patient count is not looked at
HasCapacityForWorkload(nurse) == nurse.currentWorkload < nurse.maxWorkload

HasCapacity(nurse) ==
    /\ nurse.currentWorkload < nurse.maxWorkload
    /\ Len(nurse.assignedPatients) < nurse.maxPatients

\* pool.reduce((prev, current) =>
\*     prev.currentWorkload < current.currentWorkload ? prev : current)
\* over the positions `pool` of sw: prev is kept only while strictly lower.
\* variant: prev is kept also when the workloads are equal
RECURSIVE ReduceBestKeepsTies(_, _, _)
ReduceBestKeepsTies(sw, pool, prev) ==
    IF pool = <<>> THEN prev
    ELSE ReduceBestKeepsTies(sw, Tail(pool),
                             IF sw[prev].currentWorkload <= sw[pool[1]].currentWorkload
                             THEN prev ELSE pool[1])

RECURSIVE ReduceBest(_, _, _)
ReduceBest(sw, pool, prev) ==
    IF pool = <<>> THEN prev
    ELSE ReduceBest(sw, Tail(pool),
                    IF sw[prev].currentWorkload < sw[pool[1]].currentWorkload
                    THEN prev ELSE pool[1])

bestNurse(sw, pool) == ReduceBest(sw, Tail(pool), pool[1])

\* bestNurse.assignedPatients.push(patient); bestNurse.currentWorkload += acuity
Place(sw, k, patient) ==
    [sw EXCEPT ![k].assignedPatients = Append(@, patient),
               ![k].currentWorkload = @ + patient.acuity]

\* variant: the pool is every nurse with capacity, qualified or not
AssignOneAnyone(sw, patient) ==
    LET availableNurses == SelectSeq(Indices(sw), LAMBDA k : HasCapacity(sw[k]))
    IN  IF availableNurses # <<>> THEN Place(sw, bestNurse(sw, availableNurses), patient)
        ELSE sw

\* variant: without the fallback to the nurses that are not qualified
AssignOneQualifiedOnly(sw, patient) ==
    LET qualifiedNurses == SelectSeq(Indices(sw), LAMBDA k :
                               /\ patient.unit \in sw[k].qualifications
                               /\ HasCapacity(sw[k]))
    IN  IF qualifiedNurses # <<>> THEN Place(sw, bestNurse(sw, qualifiedNurses), patient)
        ELSE sw

\* one turn of the loop `for (const patient of sortedPatients)`
AssignOne(sw, patient) ==
    LET qualifiedNurses == SelectSeq(Indices(sw), LAMBDA k :
                               /\ patient.unit \in sw[k].qualifications
                               /\ HasCapacity(sw[k]))
        availableNurses == SelectSeq(Indices(sw), LAMBDA k : HasCapacity(sw[k]))
    IN  IF qualifiedNurses # <<>> THEN Place(sw, bestNurse(sw, qualifiedNurses), patient)
        ELSE IF availableNurses # <<>> THEN Place(sw, bestNurse(sw, availableNurses), patient)
        ELSE sw

RECURSIVE AssignLoop(_, _)
AssignLoop(sw, sorted) ==
    IF sorted = <<>> THEN sw
    ELSE LET placed == AssignOne(sw, sorted[1])  \* the staff after this turn
         IN  IF DOMAIN placed = DOMAIN sw        \* a turn keeps every position
             THEN AssignLoop(placed, Tail(sorted)) ELSE placed

\* isOverloaded and alert as computed when the assignments array is created
OverloadedFlag(workload, count, nurse) ==
    workload > nurse.maxWorkload \/ count > nurse.maxPatients

AssignAlert(workload, count, nurse) ==
    IF count > nurse.maxPatients THEN "Too many patients!"
    ELSE IF workload > nurse.maxWorkload THEN "Workload too high!"
    ELSE ""

assignPatientsToNurses(patients, staff) ==
    LET sw == AssignLoop(StaffWithWorkload(staff), SortByAcuityDesc(patients))
    IN  [k \in DOMAIN sw |->
            [nurseId |-> sw[k].id, unit |-> sw[k].unit,
             patients |-> sw[k].assignedPatients,
             workload |-> sw[k].currentWorkload,
             isOverloaded |-> OverloadedFlag(sw[k].currentWorkload,
                                             Len(sw[k].assignedPatients), sw[k]),
             alert |-> AssignAlert(sw[k].currentWorkload,
                                   Len(sw[k].assignedPatients), sw[k])]]

(***************************************************************************)
(* rebalancer.ts: generateRebalancingSuggestions                           *)
(*                                                                         *)
(* The function writes to the assignment objects it is given               *)
(* (targetNurse.workload += ..., targetNurse.patients.push(...)), so the   *)
(* loops carry the argument array along: `as` is the state of the caller's *)
(* objects, `suggestions` the array being built.                           *)
(***************************************************************************)
Underutilized(a, overloaded) ==
    /\ a.nurseId # overloaded.nurseId
    /\ 10 * a.workload < 6 * getStaffById(a.nurseId).maxWorkload  \* workload < maxWorkload * 0.6
    /\ Len(a.patients) < getStaffById(a.nurseId).maxPatients

\* variant: the target's workload is left as it was
RecordOnTargetKeepsWorkload(as, t, patient) ==
    [as EXCEPT ![t].patients = Append(@, patient)]

\* lines 171-173: the statements after suggestions.push(...)
RecordOnTarget(as, t, patient) ==
    [as EXCEPT ![t].workload = @ + patient.acuity,
               ![t].patients = Append(@, patient)]

\* variant: the target is the first underutilized nurse, qualified or not
SuggestForFirstInPool(acc, o, underutilizedNurses, patient) ==
    LET as == acc.as
        t == underutilizedNurses[1]
        expectedFromWorkload == as[o].workload - patient.acuity
        expectedToWorkload == as[t].workload + patient.acuity
    IN  IF underutilizedNurses = <<>> THEN acc
        ELSE IF /\ expectedFromWorkload < as[o].workload
                /\ expectedToWorkload < getStaffById(as[t].nurseId).maxWorkload
        THEN [as |-> RecordOnTarget(as, t, patient),
              suggestions |-> Append(acc.suggestions,
                  [fromNurseId |-> as[o].nurseId, toNurseId |-> as[t].nurseId,
                   patientId |-> patient.id,
                   expectedFromWorkload |-> expectedFromWorkload,
                   expectedToWorkload |-> expectedToWorkload,
                   skillMatch |-> patient.unit \in getStaffById(as[t].nurseId).qualifications])]
        ELSE acc

\* the body of `for (const patient of overloaded.patients)`
SuggestFor(acc, o, underutilizedNurses, patient) ==
    LET as == acc.as
        skillMatchNurses == SelectSeq(underutilizedNurses, LAMBDA k :
                                patient.unit \in getStaffById(as[k].nurseId).qualifications)
        t == IF skillMatchNurses # <<>> THEN skillMatchNurses[1] ELSE underutilizedNurses[1]
        expectedFromWorkload == as[o].workload - patient.acuity
        expectedToWorkload == as[t].workload + patient.acuity
    IN  IF underutilizedNurses = <<>> THEN acc
        ELSE IF /\ expectedFromWorkload < as[o].workload
                /\ expectedToWorkload < getStaffById(as[t].nurseId).maxWorkload
        THEN [as |-> RecordOnTarget(as, t, patient),
              suggestions |-> Append(acc.suggestions,
                  [fromNurseId |-> as[o].nurseId, toNurseId |-> as[t].nurseId,
                   patientId |-> patient.id,
                   expectedFromWorkload |-> expectedFromWorkload,
                   expectedToWorkload |-> expectedToWorkload,
                   skillMatch |-> patient.unit \in getStaffById(as[t].nurseId).qualifications])]
        ELSE acc

RECURSIVE PatientLoop(_, _, _, _)
PatientLoop(acc, o, underutilizedNurses, k) ==
    IF k > Len(acc.as[o].patients) THEN acc
    ELSE PatientLoop(SuggestFor(acc, o, underutilizedNurses, acc.as[o].patients[k]),
                     o, underutilizedNurses, k + 1)

\* the body of `for (const overloaded of overloadedAssignments)`
RECURSIVE OverloadedLoop(_, _)
OverloadedLoop(acc, overloadedAssignments) ==
    IF overloadedAssignments = <<>> THEN acc
    ELSE LET o == overloadedAssignments[1]
             underutilizedNurses == SelectSeq(Indices(acc.as), LAMBDA k :
                                        Underutilized(acc.as[k], acc.as[o]))
         IN  OverloadedLoop(PatientLoop(acc, o, underutilizedNurses, 1),
                            Tail(overloadedAssignments))

SuggestRun(assignments) ==
    OverloadedLoop([as |-> assignments, suggestions |-> <<>>],
                   SelectSeq(Indices(assignments), LAMBDA k : assignments[k].isOverloaded))

\* the value returned
generateRebalancingSuggestions(assignments) == SuggestRun(assignments).suggestions

\* the caller's assignment objects once the call has returned
AssignmentsAfterSuggest(assignments) == SuggestRun(assignments).as

(***************************************************************************)
(* rebalancer.ts: applySuggestion                                          *)
(***************************************************************************)
FindPatient(ps, id) ==
    LET hits == SelectSeq(ps, LAMBDA p : p.id = id)
    IN  IF hits = <<>> THEN <<>> ELSE <<hits[1]>>

FindAssignment(assignments, nurseId) ==
    LET hits == SelectSeq(assignments, LAMBDA a : a.nurseId = nurseId)
    IN  IF hits = <<>> THEN <<>> ELSE <<hits[1]>>

\* the alert of lines 200-205 and 223-228: the workload test comes first
ApplyAlert(workload, count, nurse) ==
    IF workload > nurse.maxWorkload THEN "Workload too high!"
    ELSE IF count > nurse.maxPatients THEN "Too many patients!"
    ELSE ""

\* variant: the source keeps the patient in its list
applySuggestionKeepsSource(assignments, suggestion) ==
    [k \in DOMAIN assignments |->
        LET a == assignments[k]
            patientToMove == FindPatient(a.patients, suggestion.patientId)
            from == FindAssignment(assignments, suggestion.fromNurseId)
            patientToAdd == IF from = <<>> THEN <<>>
                            ELSE FindPatient(from[1].patients, suggestion.patientId)
        IN  IF a.nurseId = suggestion.fromNurseId /\ patientToMove # <<>>
            THEN [a EXCEPT !.workload = a.workload - patientToMove[1].acuity]
            ELSE IF a.nurseId = suggestion.toNurseId /\ patientToAdd # <<>>
            THEN [a EXCEPT !.patients = Append(a.patients, patientToAdd[1]),
                           !.workload = a.workload + patientToAdd[1].acuity]
            ELSE a]

applySuggestion(assignments, suggestion) ==
    [k \in DOMAIN assignments |->
        LET a == assignments[k]
            nurse == getStaffById(a.nurseId)
            patientToMove == FindPatient(a.patients, suggestion.patientId)
            from == FindAssignment(assignments, suggestion.fromNurseId)
            patientToAdd == IF from = <<>> THEN <<>>
                            ELSE FindPatient(from[1].patients, suggestion.patientId)
        IN  IF a.nurseId = suggestion.fromNurseId /\ patientToMove # <<>>
            THEN [a EXCEPT
                    !.patients = SelectSeq(a.patients, LAMBDA p : p.id # suggestion.patientId),
                    !.workload = a.workload - patientToMove[1].acuity,
                    !.isOverloaded = OverloadedFlag(a.workload - patientToMove[1].acuity,
                                                    Len(a.patients) - 1, nurse),
                    !.alert = ApplyAlert(a.workload - patientToMove[1].acuity,
                                         Len(a.patients) - 1, nurse)]
            ELSE IF a.nurseId = suggestion.toNurseId /\ patientToAdd # <<>>
            THEN [a EXCEPT
                    !.patients = Append(a.patients, patientToAdd[1]),
                    !.workload = a.workload + patientToAdd[1].acuity,
                    !.isOverloaded = OverloadedFlag(a.workload + patientToAdd[1].acuity,
                                                    Len(a.patients) + 1, nurse),
                    !.alert = ApplyAlert(a.workload + patientToAdd[1].acuity,
                                         Len(a.patients) + 1, nurse)]
            ELSE a]

(***************************************************************************)
(* simulationEngine.ts: createImbalancedInitialAssignments                 *)
(***************************************************************************)
\* the keys of patientsByUnit in insertion order (Object.entries)
RECURSIVE UnitsInOrder(_, _)
UnitsInOrder(ps, seen) ==
    IF ps = <<>> THEN seen
    ELSE UnitsInOrder(Tail(ps),
                      IF \E k \in DOMAIN seen : seen[k] = ps[1].unit
                      THEN seen ELSE Append(seen, ps[1].unit))

InitialAlert(workload, count, maxWorkload, maxPatients) ==
    IF workload > maxWorkload \/ count > maxPatients
    THEN (IF count > maxPatients THEN "Too many patients!" ELSE "Workload too high!")
    ELSE ""

\* variant: the assignment pushed keeps the first patient of the entry only
InitialAssignmentOfFirst(nurse, ps) ==
    LET first == SubSeq(ps, 1, Min2(1, Len(ps)))
    IN  [nurseId |-> nurse.id, unit |-> nurse.unit, patients |-> first,
         workload |-> SumAcuity(first),
         isOverloaded |-> (SumAcuity(first) > nurse.maxWorkload),
         alert |-> InitialAlert(SumAcuity(first), Len(first), nurse.maxWorkload,
                                nurse.maxPatients)]

\* the assignment pushed for one entry of nursePatients (lines 78-103)
InitialAssignment(nurse, ps) ==
    [nurseId |-> nurse.id, unit |-> nurse.unit, patients |-> ps,
     workload |-> SumAcuity(ps),
     isOverloaded |-> (SumAcuity(ps) > nurse.maxWorkload \/ Len(ps) > nurse.maxPatients),
     alert |-> InitialAlert(SumAcuity(ps), Len(ps), nurse.maxWorkload, nurse.maxPatients)]

IdleAssignment(nurse) ==
    [nurseId |-> nurse.id, unit |-> nurse.unit, patients |-> <<>>, workload |-> 0,
     isOverloaded |-> FALSE, alert |-> ""]

\* variant: up to three staff members take a unit's patients
ImbalancedUnitOfThree(acc, unit, patients) ==
    LET unitPatients == SelectSeq(patients, LAMBDA p : p.unit = unit)
        availableNurses == SelectSeq(STATIC_STAFF, LAMBDA nurse :
                               /\ unit \in nurse.qualifications
                               /\ nurse.id \notin acc.assignedNurseIds)
        overloadedNurseCount == Min2(3, Max2(1, Len(availableNurses)))
        overloadedNurses == SubSeq(availableNurses, 1, overloadedNurseCount)
        \* unitPatients.forEach((patient, index) => overloadedNurses[index % length] ...)
        share(j) == SelectSeq(Indices(unitPatients), LAMBDA i :
                        (i - 1) % Len(overloadedNurses) = j - 1)
        used == SelectSeq(Indices(overloadedNurses), LAMBDA j : share(j) # <<>>)
    IN  IF availableNurses = <<>> THEN acc
        ELSE [assignments |-> acc.assignments \o
                  [u \in 1..Len(used) |->
                      InitialAssignment(overloadedNurses[used[u]],
                          [i \in 1..Len(share(used[u])) |-> unitPatients[share(used[u])[i]]])],
              assignedNurseIds |-> acc.assignedNurseIds \cup
                  {overloadedNurses[used[u]].id : u \in 1..Len(used)}]

\* one turn of `for (const [unit, unitPatients] of Object.entries(patientsByUnit))`
ImbalancedUnit(acc, unit, patients) ==
    LET unitPatients == SelectSeq(patients, LAMBDA p : p.unit = unit)
        availableNurses == SelectSeq(STATIC_STAFF, LAMBDA nurse :
                               /\ unit \in nurse.qualifications
                               /\ nurse.id \notin acc.assignedNurseIds)
        overloadedNurseCount == Min2(2, Max2(1, Len(availableNurses)))
        overloadedNurses == SubSeq(availableNurses, 1, overloadedNurseCount)
        \* unitPatients.forEach((patient, index) => overloadedNurses[index % length] ...)
        share(j) == SelectSeq(Indices(unitPatients), LAMBDA i :
                        (i - 1) % Len(overloadedNurses) = j - 1)
        used == SelectSeq(Indices(overloadedNurses), LAMBDA j : share(j) # <<>>)
    IN  IF availableNurses = <<>> THEN acc
        ELSE [assignments |-> acc.assignments \o
                  [u \in 1..Len(used) |->
                      InitialAssignment(overloadedNurses[used[u]],
                          [i \in 1..Len(share(used[u])) |-> unitPatients[share(used[u])[i]]])],
              assignedNurseIds |-> acc.assignedNurseIds \cup
                  {overloadedNurses[used[u]].id : u \in 1..Len(used)}]

RECURSIVE ImbalancedLoop(_, _, _)
ImbalancedLoop(acc, units, patients) ==
    IF units = <<>> THEN acc
    ELSE ImbalancedLoop(ImbalancedUnit(acc, units[1], patients), Tail(units), patients)

createImbalancedInitialAssignments(patients) ==
    LET acc == ImbalancedLoop([assignments |-> <<>>, assignedNurseIds |-> {}],
                              UnitsInOrder(patients, <<>>), patients)
        idle == SelectSeq(STATIC_STAFF, LAMBDA nurse : nurse.id \notin acc.assignedNurseIds)
    IN  acc.assignments \o [k \in 1..Len(idle) |-> IdleAssignment(idle[k])]

(***************************************************************************)
(* simulationEngine.ts: initializeSimulation, start, stop, reset           *)
(***************************************************************************)
\* `acuities` are the draws Math.floor(Math.random() * 5) + 1, one per patient
\* variant: every initial patient is placed in the first unit
initializeSimulationOneUnit(initialPatientCount, acuities, clock) ==
    LET patients == [k \in 1..initialPatientCount |->
                        Patient(clock, k - 1, Units[1], acuities[k])]
    IN  [patients |-> patients,
         assignments |-> createImbalancedInitialAssignments(patients),
         lastUpdate |-> clock, tick |-> 0, isRunning |-> TRUE, workloadHistory |-> <<>>]

initializeSimulation(initialPatientCount, acuities, clock) ==
    LET patients == [k \in 1..initialPatientCount |->
                        Patient(clock, k - 1, Units[((k - 1) % Len(Units)) + 1], acuities[k])]
    IN  [patients |-> patients,
         assignments |-> createImbalancedInitialAssignments(patients),
         lastUpdate |-> clock, tick |-> 0, isRunning |-> TRUE, workloadHistory |-> <<>>]

\* variant: reset leaves the simulation stopped
resetSimulationStopped(initialPatientCount, acuities, clock) ==
    [initializeSimulation(initialPatientCount, acuities, clock) EXCEPT !.isRunning = FALSE]

resetSimulation(initialPatientCount, acuities, clock) ==
    initializeSimulation(initialPatientCount, acuities, clock)

\* variant: start also rewinds the tick counter
startSimulationRewinds(st) == [st EXCEPT !.isRunning = TRUE, !.tick = 0]

startSimulation(st) == IF ~st.isRunning THEN [st EXCEPT !.isRunning = TRUE] ELSE st

stopSimulation(st) == [st EXCEPT !.isRunning = FALSE]

(***************************************************************************)
(* simulationEngine.ts: reassignStaffToUnits                               *)
(*                                                                         *)
(* `staff` is updatedStaff (a copy of STATIC_STAFF whose unit fields are   *)
(* overwritten), staffByUnit maps a unit to the positions of its staff.    *)
(* The two comparisons are made in IEEE doubles by the code; they are      *)
(* given here as the integer comparison plus the argument triples          *)
(* (staff count, summed maxWorkload, total acuity) at which the double     *)
(* product rounds to the other side of an equality.                        *)
(***************************************************************************)
RECURSIVE SumMaxAt(_, _)
SumMaxAt(staff, positions) ==
    IF positions = <<>> THEN 0
    ELSE staff[positions[1]].maxWorkload + SumMaxAt(staff, Tail(positions))

\* totalAcuity / staffCount > (sumMax / staffCount) * 0.7
AboveSeventyPercent(staffCount, sumMax, totalAcuity) ==
    \/ 10 * totalAcuity > 7 * sumMax
    \/ <<staffCount, sumMax, totalAcuity>> \in {<<7, 60, 42>>, <<9, 70, 49>>, <<10, 70, 49>>}

\* variant: a unit is taken for underutilized whatever its workload
DonorAtAnyWorkload(staffCount, sumMax, totalAcuity) == staffCount > 0

\* totalAcuity / staffCount < (sumMax / staffCount) * 0.4
BelowFortyPercent(staffCount, sumMax, totalAcuity) ==
    \/ 10 * totalAcuity < 4 * sumMax
    \/ <<staffCount, sumMax, totalAcuity>> \in
          {<<3, 25, 10>>, <<5, 35, 14>>, <<6, 50, 20>>, <<7, 50, 20>>, <<7, 60, 24>>,
           <<7, 65, 26>>, <<9, 65, 26>>, <<9, 75, 30>>, <<9, 80, 32>>, <<9, 85, 34>>,
           <<10, 70, 28>>, <<10, 85, 34>>, <<10, 95, 38>>}

UnitDemand(patients, unit) ==
    LET ofUnit == SelectSeq(patients, LAMBDA p : p.unit = unit)
    IN  [count |-> Len(ofUnit), totalAcuity |-> SumAcuity(ofUnit)]

\* variant: the staff member pulled is pushed to updatedStaff as a copy
RECURSIVE PullStaffPushesCopy(_, _, _, _)
PullStaffPushesCopy(acc, unit, others, patients) ==
    IF others = <<>> THEN acc
    ELSE LET otherUnit == others[1]
             otherStaff == acc.staffByUnit[otherUnit]
             otherDemand == UnitDemand(patients, otherUnit)
             qualified == SelectSeq(otherStaff, LAMBDA k : unit \in acc.staff[k].qualifications)
         IN  IF \/ otherUnit = unit
                \/ Len(otherStaff) <= 1
                \/ ~BelowFortyPercent(Len(otherStaff), SumMaxAt(acc.staff, otherStaff),
                                      otherDemand.totalAcuity)
                \/ qualified = <<>>
             THEN PullStaffPushesCopy(acc, unit, Tail(others), patients)
             ELSE [staff |-> Append(acc.staff, [acc.staff[qualified[1]] EXCEPT !.unit = unit]),
                   staffByUnit |-> [acc.staffByUnit EXCEPT
                       ![unit] = Append(@, Len(acc.staff) + 1)]]

\* variant: the staff member pulled need not be qualified for the unit
RECURSIVE PullStaffAnyone(_, _, _, _)
PullStaffAnyone(acc, unit, others, patients) ==
    IF others = <<>> THEN acc
    ELSE LET otherUnit == others[1]
             otherStaff == acc.staffByUnit[otherUnit]
             otherDemand == UnitDemand(patients, otherUnit)
         IN  IF \/ otherUnit = unit
                \/ Len(otherStaff) <= 1
                \/ ~BelowFortyPercent(Len(otherStaff), SumMaxAt(acc.staff, otherStaff),
                                      otherDemand.totalAcuity)
             THEN PullStaffAnyone(acc, unit, Tail(others), patients)
             ELSE LET availableStaff == otherStaff[1]
                  IN  [staff |-> [acc.staff EXCEPT ![availableStaff].unit = unit],
                       staffByUnit |-> [acc.staffByUnit EXCEPT
                           ![otherUnit] = SelectSeq(@, LAMBDA k : k # availableStaff),
                           ![unit] = Append(@, availableStaff)]]

\* `for (const otherUnit of units)` up to its break
RECURSIVE PullStaff(_, _, _, _)
PullStaff(acc, unit, others, patients) ==
    IF others = <<>> THEN acc
    ELSE LET otherUnit == others[1]
             otherStaff == acc.staffByUnit[otherUnit]
             otherDemand == UnitDemand(patients, otherUnit)
             qualified == SelectSeq(otherStaff, LAMBDA k : unit \in acc.staff[k].qualifications)
         IN  IF \/ otherUnit = unit
                \/ Len(otherStaff) <= 1
                \/ ~BelowFortyPercent(Len(otherStaff), SumMaxAt(acc.staff, otherStaff),
                                      otherDemand.totalAcuity)
                \/ qualified = <<>>
             THEN PullStaff(acc, unit, Tail(others), patients)
             ELSE LET availableStaff == qualified[1]
                  IN  [staff |-> [acc.staff EXCEPT ![availableStaff].unit = unit],
                       staffByUnit |-> [acc.staffByUnit EXCEPT
                           ![otherUnit] = SelectSeq(@, LAMBDA k : k # availableStaff),
                           ![unit] = Append(@, availableStaff)]]

\* `for (const unit of units)`
RECURSIVE ReassignLoop(_, _, _)
ReassignLoop(acc, units, patients) ==
    IF units = <<>> THEN acc
    ELSE LET unit == units[1]
             demand == UnitDemand(patients, unit)
             currentStaff == acc.staffByUnit[unit]
             needsStaff == /\ Len(currentStaff) > 0
                           /\ AboveSeventyPercent(Len(currentStaff),
                                  SumMaxAt(acc.staff, currentStaff), demand.totalAcuity)
                           /\ demand.count > 0
         IN  ReassignLoop(IF needsStaff THEN PullStaff(acc, unit, Units, patients) ELSE acc,
                          Tail(units), patients)

reassignStaffToUnits(patients) ==
    ReassignLoop(
        [staff |-> STATIC_STAFF,
         staffByUnit |-> [u \in {Units[k] : k \in DOMAIN Units} |->
             SelectSeq(Indices(STATIC_STAFF), LAMBDA k : STATIC_STAFF[k].unit = u)]],
        Units, patients).staff

(***************************************************************************)
(* simulationEngine.ts: applyRebalancingSuggestion                         *)
(***************************************************************************)
\* variant: the source's workload is not recomputed
applyRebalancingSuggestionKeepsWorkload(assignments, fromNurseId, toNurseId, patientId) ==
    [k \in DOMAIN assignments |->
        LET a == assignments[k]
            from == FindAssignment(assignments, fromNurseId)
            patient == IF from = <<>> THEN <<>> ELSE FindPatient(from[1].patients, patientId)
        IN  IF a.nurseId = fromNurseId
            THEN [a EXCEPT !.patients = SelectSeq(a.patients, LAMBDA p : p.id # patientId)]
            ELSE IF a.nurseId = toNurseId /\ patient # <<>>
            THEN LET updatedPatients == Append(a.patients, patient[1])
                 IN  [a EXCEPT !.patients = updatedPatients,
                               !.workload = SumAcuity(updatedPatients)]
            ELSE a]

applyRebalancingSuggestion(assignments, fromNurseId, toNurseId, patientId) ==
    [k \in DOMAIN assignments |->
        LET a == assignments[k]
            from == FindAssignment(assignments, fromNurseId)
            patient == IF from = <<>> THEN <<>> ELSE FindPatient(from[1].patients, patientId)
        IN  IF a.nurseId = fromNurseId
            THEN LET updatedPatients == SelectSeq(a.patients, LAMBDA p : p.id # patientId)
                 IN  [a EXCEPT !.patients = updatedPatients,
                               !.workload = SumAcuity(updatedPatients)]
            ELSE IF a.nurseId = toNurseId /\ patient # <<>>
            THEN LET updatedPatients == Append(a.patients, patient[1])
                 IN  [a EXCEPT !.patients = updatedPatients,
                               !.workload = SumAcuity(updatedPatients)]
            ELSE a]

(***************************************************************************)
(* simulationEngine.ts: runSimulationTick                                  *)
(*                                                                         *)
(* The Math.random() draws of one call are its parameters:                 *)
(*   dischargeRolls  positions of simulationState.patients whose discharge *)
(*                   roll falls below the adjusted chance                  *)
(*   admissions      the admitted (unit, acuity) pairs, empty when the     *)
(*                   admission roll fails                                  *)
(*   driftRolls      position |-> -1 or 1 for the patients whose acuity    *)
(*                   roll hits                                             *)
(*   transferRolls   position |-> the unit drawn for the patients whose    *)
(*                   transfer roll hits                                    *)
(* Every adjusted chance lies strictly between 0 and 1, so every           *)
(* combination of rolls can occur.                                         *)
(***************************************************************************)
MaxHistory == 50

Discharge(patients, dischargeRolls) ==
    LET dischargedIds == {patients[k].id : k \in dischargeRolls}
    IN  SelectSeq(patients, LAMBDA p : p.id \notin dischargedIds)

Admit(patients, admissions, clock) ==
    patients \o [k \in 1..Len(admissions) |->
                    Patient(clock, k - 1, admissions[k].unit, admissions[k].acuity)]

\* variant: the drifted acuity is not clamped
AcuityChangesUnclamped(patients, driftRolls) ==
    [k \in DOMAIN patients |->
        IF k \in DOMAIN driftRolls
        THEN [patients[k] EXCEPT !.acuity = @ + driftRolls[k]]
        ELSE patients[k]]

AcuityChanges(patients, driftRolls) ==
    [k \in DOMAIN patients |->
        IF k \in DOMAIN driftRolls
        THEN [patients[k] EXCEPT !.acuity = Max2(1, Min2(5, @ + driftRolls[k]))]
        ELSE patients[k]]

UnitTransfers(patients, transferRolls) ==
    [k \in DOMAIN patients |->
        IF k \in DOMAIN transferRolls
        THEN LET newUnit == IF patients[k].acuity >= 4 THEN "ICU"
                            ELSE IF patients[k].acuity = 1 THEN "MEDSURG"
                            ELSE transferRolls[k]
             IN  [patients[k] EXCEPT !.unit = newUnit]  \* {...patient, unit: newUnit}
        ELSE patients[k]]

\* variant: three suggestions are considered at every tick
SuggestionsToApplyAlwaysThree(currentTick) == 3

\* Math.ceil(1 + Math.min(currentTick / 20, 1) * 2)
SuggestionsToApply(currentTick) ==
    IF currentTick >= 20 THEN 3 ELSE 1 + ((currentTick + 9) \div 10)

\* Math.abs(expectedFromWorkload - expectedToWorkload) > 3 - convergenceFactor * 2
AboveThreshold(suggestion, currentTick) ==
    LET gap == IF suggestion.expectedFromWorkload >= suggestion.expectedToWorkload
               THEN suggestion.expectedFromWorkload - suggestion.expectedToWorkload
               ELSE suggestion.expectedToWorkload - suggestion.expectedFromWorkload
    IN  10 * gap > 30 - Min2(currentTick, 20)

\* `for (const suggestion of prioritySuggestions)`
RECURSIVE AutoApply(_, _, _)
AutoApply(rebalancedAssignments, prioritySuggestions, currentTick) ==
    IF prioritySuggestions = <<>> THEN rebalancedAssignments
    ELSE LET suggestion == prioritySuggestions[1]
         IN  AutoApply(IF AboveThreshold(suggestion, currentTick)
                       THEN applyRebalancingSuggestion(rebalancedAssignments,
                                suggestion.fromNurseId, suggestion.toNurseId,
                                suggestion.patientId)
                       ELSE rebalancedAssignments,
                       Tail(prioritySuggestions), currentTick)

WorkloadSnapshot(tick, assignments) ==
    [tick |-> tick, nurseWorkloads |-> {assignments[k].nurseId : k \in DOMAIN assignments}]

\* variant: no snapshot is ever dropped
UpdatedHistoryUntrimmed(workloadHistory, snapshot) == Append(workloadHistory, snapshot)

\* variant: the snapshot dropped is the newest
UpdatedHistoryDropsNewest(workloadHistory, snapshot) ==
    LET updatedHistory == Append(workloadHistory, snapshot)
    IN  IF Len(updatedHistory) > MaxHistory THEN SubSeq(updatedHistory, 1, MaxHistory)
        ELSE updatedHistory

UpdatedHistory(workloadHistory, snapshot) ==
    LET updatedHistory == Append(workloadHistory, snapshot)
    IN  IF Len(updatedHistory) > MaxHistory THEN Tail(updatedHistory) ELSE updatedHistory

\* steps 5-8: the assignments a tick stores for the patient list `patients`
Rebalanced(patients, currentTick) ==
    LET updatedStaff == reassignStaffToUnits(patients)
        assignments == assignPatientsToNurses(patients, updatedStaff)
        suggestions == generateRebalancingSuggestions(assignments)
        \* `assignments` names the objects the call above has written to
        assignmentsNow == AssignmentsAfterSuggest(assignments)
        prioritySuggestions ==
            SubSeq(suggestions, 1, Min2(Len(suggestions), SuggestionsToApply(currentTick)))
    IN  AutoApply(assignmentsNow, prioritySuggestions, currentTick)

\* lines 384-532: the tick of a running simulation
TickBody(st, clock, dischargeRolls, admissions, driftRolls, transferRolls) ==
    LET currentTick == st.tick + 1
        patients == UnitTransfers(
                        AcuityChanges(
                            Admit(Discharge(st.patients, dischargeRolls), admissions, clock),
                            driftRolls),
                        transferRolls)
        rebalancedAssignments == Rebalanced(patients, currentTick)
    IN  [patients |-> patients,
         assignments |-> rebalancedAssignments,
         lastUpdate |-> clock,
         tick |-> st.tick + 1,
         isRunning |-> TRUE,
         workloadHistory |-> UpdatedHistory(st.workloadHistory,
                                WorkloadSnapshot(st.tick + 1, rebalancedAssignments))]

\* variant: the tick does not test isRunning
runSimulationTickUnguarded(st, clock, dischargeRolls, admissions, driftRolls, transferRolls) ==
    TickBody(st, clock, dischargeRolls, admissions, driftRolls, transferRolls)

\* variant: a running tick counts twice
runSimulationTickCountsTwice(st, clock, dischargeRolls, admissions, driftRolls, transferRolls) ==
    IF ~st.isRunning THEN st
    ELSE [TickBody(st, clock, dischargeRolls, admissions, driftRolls, transferRolls)
             EXCEPT !.tick = st.tick + 2]

runSimulationTick(st, clock, dischargeRolls, admissions, driftRolls, transferRolls) ==
    IF ~st.isRunning THEN st
    ELSE TickBody(st, clock, dischargeRolls, admissions, driftRolls, transferRolls)

(***************************************************************************)
(* simulationEngine.ts: calculateBalanceMetric                             *)
(*                                                                         *)
(* mean, variance and stdDev are doubles in the code.  Here the mean is    *)
(* the fraction sum / n, a squared difference (count - mean)^2 is          *)
(* (n * count - sum)^2 / n^2, the variance is their sum over n, and        *)
(* stdDev <= 1 and stdDev <= 1.5 are compared as variance <= 1 and         *)
(* 4 * variance <= 9.  For lists of up to 10 records (the roster) the      *)
(* doubles decide both comparisons as the fractions do, in every order of  *)
(* the records: off the thresholds stdDev is more than 0.001 away from     *)
(* them, and on them the double result is exact.                           *)
(***************************************************************************)
RECURSIVE SumSeq(_)
SumSeq(s) == IF s = <<>> THEN 0 ELSE s[1] + SumSeq(Tail(s))

\* Math.max(...patientCounts) of a non-empty array
MaxOf(s) == CHOOSE c \in {s[k] : k \in DOMAIN s} : \A k \in DOMAIN s : s[k] <= c

\* variant: the SUFFICIENT bound on the deviation is exclusive
MetricOfStrict(maxCount, variance) ==
    IF maxCount <= 2 /\ variance.num <= variance.den THEN "IDEAL"
    ELSE IF maxCount <= 4 /\ 4 * variance.num < 9 * variance.den THEN "SUFFICIENT"
    ELSE "INADEQUATE"

\* lines 643-649; variance = stdDev^2 as a fraction
MetricOf(maxCount, variance) ==
    IF maxCount <= 2 /\ variance.num <= variance.den THEN "IDEAL"
    ELSE IF maxCount <= 4 /\ 4 * variance.num <= 9 * variance.den THEN "SUFFICIENT"
    ELSE "INADEQUATE"

\* standardDeviation is returned as its square, averagePatientCount as a fraction
calculateBalanceMetric(assignments) ==
    IF Len(assignments) = 0
    THEN [metric |-> "IDEAL", standardDeviationSquared |-> [num |-> 0, den |-> 1],
          averagePatientCount |-> [num |-> 0, den |-> 1], maxPatientCount |-> 0]
    ELSE LET patientCounts == [k \in DOMAIN assignments |-> Len(assignments[k].patients)]
             n == Len(patientCounts)
             mean == [num |-> SumSeq(patientCounts), den |-> n]
             squaredDiffs == [k \in DOMAIN patientCounts |->
                                 [num |-> (n * patientCounts[k] - mean.num)
                                              * (n * patientCounts[k] - mean.num),
                                  den |-> n * n]]
             variance == [num |-> SumSeq([k \in DOMAIN squaredDiffs |-> squaredDiffs[k].num]),
                          den |-> n * n * n]
             maxCount == MaxOf(patientCounts)
         IN  [metric |-> MetricOf(maxCount, variance),
              standardDeviationSquared |-> variance,
              averagePatientCount |-> mean,
              maxPatientCount |-> maxCount]

(***************************************************************************)
(* The draws the model enumerates.                                         *)
(***************************************************************************)
AcuityDraws == Max2(1, 6 - AcuityKinds)..5

LastUnits(kinds) == {Units[k] : k \in Max2(1, Len(Units) + 1 - kinds)..Len(Units)}

AdmissionUnitDraws == LastUnits(UnitKinds)

\* admissionCount is 1..3 when the admission roll hits
AdmissionDraws(room) ==
    UNION {[1..k -> [unit : AdmissionUnitDraws, acuity : AcuityDraws]] :
              k \in 0..Max2(0, Min2(3, room))}

BoundedSubsets(n, k) == {S \in SUBSET (1..n) : Cardinality(S) <= k}

UnitSet == {Units[k] : k \in DOMAIN Units}

\* units[Math.floor(Math.random() * 4)] is drawn only for a patient of acuity 2 or 3;
\* for the others the roll carries no unit (written as the first one)
TransferDraws(patients, transferOn) ==
    {f \in [transferOn -> UnitSet] :
        \A k \in transferOn : patients[k].acuity \notin {2, 3} => f[k] = Units[1]}

(***************************************************************************)
(* The state machine: the exported operations of simulationEngine.ts       *)
(* called on the one simulationState.                                      *)
(***************************************************************************)
ModuleLoadState ==
    [patients |-> <<>>, assignments |-> <<>>, lastUpdate |-> 0, tick |-> 0,
     isRunning |-> FALSE, workloadHistory |-> <<>>]

NoCall == [fn |-> "none"]

Init ==
    /\ simulationState = ModuleLoadState
    /\ now = 0
    /\ lastOp = "load"
    /\ initialized = FALSE
    /\ pc = "idle"
    /\ callInput = NoCall
    /\ callAfter = NoCall
    /\ callResult = NoCall

harness == <<pc, callInput, callAfter, callResult>>

\* time passes between two calls
ClockAdvance ==
    /\ now < MaxClock
    /\ now' = now + 1
    /\ UNCHANGED <<simulationState, lastOp, initialized, harness>>

InitializeTo(maxCount) ==
    /\ \E n \in 0..maxCount : \E acuities \in [1..n -> AcuityDraws] :
           simulationState' = initializeSimulation(n, acuities, now)
    /\ lastOp' = "initialize"
    /\ initialized' = TRUE
    /\ UNCHANGED <<now, harness>>

ResetTo(maxCount) ==
    /\ \E n \in 0..maxCount : \E acuities \in [1..n -> AcuityDraws] :
           simulationState' = resetSimulation(n, acuities, now)
    /\ lastOp' = "reset"
    /\ initialized' = TRUE
    /\ UNCHANGED <<now, harness>>

Start ==
    /\ simulationState' = startSimulation(simulationState)
    /\ lastOp' = "start"
    /\ UNCHANGED <<now, initialized, harness>>

Stop ==
    /\ simulationState' = stopSimulation(simulationState)
    /\ lastOp' = "stop"
    /\ UNCHANGED <<now, initialized, harness>>

\* runSimulationTick() with every combination of rolls within the bounds
TickWithin(maxTick, maxPop, maxEvents) ==
    /\ simulationState.isRunning => simulationState.tick < maxTick
    /\ IF simulationState.isRunning
       THEN \E dischargeRolls \in BoundedSubsets(Len(simulationState.patients), maxEvents) :
            LET kept == Len(Discharge(simulationState.patients, dischargeRolls))
                left == maxEvents - Cardinality(dischargeRolls)
            IN  \E admissions \in AdmissionDraws(maxPop - kept) :
                \E driftOn \in BoundedSubsets(kept + Len(admissions), left) :
                \E driftRolls \in [driftOn -> {-1, 1}] :
                \E transferOn \in BoundedSubsets(kept + Len(admissions),
                                                 left - Cardinality(driftOn)) :
                \E transferRolls \in TransferDraws(
                        AcuityChanges(Admit(Discharge(simulationState.patients,
                            dischargeRolls), admissions, now), driftRolls), transferOn) :
                    simulationState' = runSimulationTick(simulationState, now,
                        dischargeRolls, admissions, driftRolls, transferRolls)
       ELSE simulationState' = runSimulationTick(simulationState, now, {}, <<>>, <<>>, <<>>)
    /\ lastOp' = "tick"
    /\ UNCHANGED <<now, initialized, harness>>

Initialize == InitializeTo(MaxInit)
Reset == ResetTo(MaxInit)
Tick == TickWithin(MaxTick, MaxPop, MaxEvents)

Next == Initialize \/ Reset \/ Start \/ Stop \/ Tick \/ ClockAdvance

Spec == Init /\ [][Next]_vars

(***************************************************************************)
(* The ward: the same operations on a ward of WardInit patients, enough    *)
(* for a tick to apply one of its own suggestions.                         *)
(***************************************************************************)
WardAcuities ==
    {acuities \in [1..WardInit -> AcuityDraws] :
        Cardinality({k \in 1..WardInit : acuities[k] # 4}) <= WardHigh}

InitializeWard ==
    /\ \E acuities \in WardAcuities :
           simulationState' = initializeSimulation(WardInit, acuities, now)
    /\ lastOp' = "initialize"
    /\ initialized' = TRUE
    /\ UNCHANGED <<now, harness>>

ResetWard ==
    /\ \E acuities \in WardAcuities :
           simulationState' = resetSimulation(WardInit, acuities, now)
    /\ lastOp' = "reset"
    /\ initialized' = TRUE
    /\ UNCHANGED <<now, harness>>

TickWard == TickWithin(WardTick, WardInit, QuietEvents)

NextWard == InitializeWard \/ ResetWard \/ Start \/ Stop \/ TickWard \/ ClockAdvance

SpecWard == Init /\ [][NextWard]_vars

(***************************************************************************)
(* The long run: more ticks than the history keeps snapshots, all calls    *)
(* made at one clock value.                                                *)
(***************************************************************************)
InitializeLong == InitializeTo(LongInit)
ResetLong == ResetTo(LongInit)
TickLong == TickWithin(LongTick, LongInit, QuietEvents)

NextLong == InitializeLong \/ ResetLong \/ Start \/ Stop \/ TickLong

SpecLong == Init /\ [][NextLong]_vars

(***************************************************************************)
(* The query endpoints of rebalancer.ts on the ward.  A query is modelled  *)
(* by what it does to simulationState; the value it returns is left out.   *)
(* `unit` is the optional filter of the input, NoUnit when none is given.  *)
(***************************************************************************)
NoUnit == "none"

UnitFilters == UnitSet \cup {NoUnit}

\* state.assignments after generateRebalancingSuggestions has run on
\* `assignments.filter(a => a.unit === input.unit)` (or on state.assignments
\* itself): the filtered array holds the objects of state.assignments
AssignmentsAfterQuery(assignments, unit) ==
    LET positions == SelectSeq(Indices(assignments), LAMBDA k :
                         unit = NoUnit \/ assignments[k].unit = unit)
        filtered == [i \in 1..Len(positions) |-> assignments[positions[i]]]
        after == AssignmentsAfterSuggest(filtered)
    IN  [k \in DOMAIN assignments |->
            IF \E i \in DOMAIN positions : positions[i] = k
            THEN after[CHOOSE i \in DOMAIN positions : positions[i] = k]
            ELSE assignments[k]]

\* lines 283-285, 287-290, 306-308 and 330-349: they read the state
ReadingQuery(name) ==
    /\ lastOp' = name
    /\ UNCHANGED <<simulationState, now, initialized, harness>>

GetSimulationState == ReadingQuery("getSimulationState")
GetBalanceMetric == ReadingQuery("getBalanceMetric")
GetSimulationStats == ReadingQuery("getSimulationStats")
GetAssignments == ReadingQuery("getAssignments")

\* lines 355-379 and 384-421: both call generateRebalancingSuggestions on the
\* state's assignment objects unless there are none
SuggestingQuery(name) ==
    /\ \E unit \in UnitFilters :
           simulationState' =
               IF Len(simulationState.assignments) = 0 THEN simulationState
               ELSE [simulationState EXCEPT
                        !.assignments = AssignmentsAfterQuery(@, unit)]
    /\ lastOp' = name
    /\ UNCHANGED <<now, initialized, harness>>

GetRebalancingSuggestions == SuggestingQuery("getRebalancingSuggestions")
GetRecommendations == SuggestingQuery("getRecommendations")

NextQuery ==
    \/ InitializeWard \/ TickWard
    \/ GetSimulationState \/ GetBalanceMetric \/ GetSimulationStats \/ GetAssignments
    \/ GetRebalancingSuggestions \/ GetRecommendations

SpecQuery == Init /\ [][NextQuery]_vars

(***************************************************************************)
(* The interruption: after any of the operations, stopSimulation(), then   *)
(* startSimulation(), then runSimulationTick(), or else resetSimulation(). *)
(* callInput keeps the state the stop or the reset was called on.          *)
(***************************************************************************)
BeforeInitialize == pc = "idle" /\ InitializeTo(MaxInit)
BeforeStart == pc = "idle" /\ Start
BeforeStop == pc = "idle" /\ Stop
BeforeTick == pc = "idle" /\ TickWithin(LongTick, MaxInit, QuietEvents)

StopCall ==
    /\ pc = "idle"
    /\ callInput' = [fn |-> "stopSimulation", state |-> simulationState]
    /\ simulationState' = stopSimulation(simulationState)
    /\ lastOp' = "stop"
    /\ pc' = "stopped"
    /\ UNCHANGED <<now, initialized, callAfter, callResult>>

StartCall ==
    /\ pc = "stopped"
    /\ simulationState' = startSimulation(simulationState)
    /\ lastOp' = "start"
    /\ pc' = "restarted"
    /\ UNCHANGED <<now, initialized, callInput, callAfter, callResult>>

TickCall ==
    /\ pc = "restarted"
    /\ lastOp = "start"
    /\ TickWithin(LongTick, MaxInit, QuietEvents)

\* resetSimulation(n) on any state the operations lead to; callInput keeps
\* that state and n
ResetCall ==
    /\ pc = "idle"
    /\ \E n \in 0..MaxInit : \E acuities \in [1..n -> AcuityDraws] :
           /\ simulationState' = resetSimulation(n, acuities, now)
           /\ callInput' = [fn |-> "resetSimulation", state |-> simulationState,
                            initialPatientCount |-> n]
    /\ lastOp' = "reset"
    /\ initialized' = TRUE
    /\ pc' = "reset"
    /\ UNCHANGED <<now, callAfter, callResult>>

NextResume ==
    \/ BeforeInitialize \/ BeforeStart \/ BeforeStop \/ BeforeTick
    \/ StopCall \/ StartCall \/ TickCall \/ ResetCall

SpecResume == Init /\ [][NextResume]_vars

(***************************************************************************)
(* The drift: initial patients of every acuity level, and ticks that keep  *)
(* in callInput the state they were called on and their discharge and      *)
(* drift rolls.                                                            *)
(***************************************************************************)
InitializeDrift ==
    /\ \E n \in 0..MaxInit : \E acuities \in [1..n -> 1..5] :
           simulationState' = initializeSimulation(n, acuities, now)
    /\ lastOp' = "initialize"
    /\ initialized' = TRUE
    /\ callInput' = NoCall
    /\ UNCHANGED <<now, pc, callAfter, callResult>>

StopDrift ==
    /\ simulationState' = stopSimulation(simulationState)
    /\ lastOp' = "stop"
    /\ callInput' = NoCall
    /\ UNCHANGED <<now, initialized, pc, callAfter, callResult>>

TickDrift ==
    /\ simulationState.isRunning => simulationState.tick < MaxTick
    /\ IF simulationState.isRunning
       THEN \E dischargeRolls \in BoundedSubsets(Len(simulationState.patients), MaxEvents) :
            LET kept == Len(Discharge(simulationState.patients, dischargeRolls))
                left == MaxEvents - Cardinality(dischargeRolls)
            IN  \E admissions \in AdmissionDraws(DriftPop - kept) :
                \E driftOn \in BoundedSubsets(kept + Len(admissions), left) :
                \E driftRolls \in [driftOn -> {-1, 1}] :
                \E transferOn \in BoundedSubsets(kept + Len(admissions),
                                                 left - Cardinality(driftOn)) :
                \E transferRolls \in TransferDraws(
                        AcuityChanges(Admit(Discharge(simulationState.patients,
                            dischargeRolls), admissions, now), driftRolls), transferOn) :
                    /\ simulationState' = runSimulationTick(simulationState, now,
                            dischargeRolls, admissions, driftRolls, transferRolls)
                    /\ callInput' = [fn |-> "runSimulationTick", state |-> simulationState,
                                     dischargeRolls |-> dischargeRolls,
                                     driftRolls |-> driftRolls]
       ELSE /\ simulationState' = runSimulationTick(simulationState, now, {}, <<>>, <<>>, <<>>)
            /\ callInput' = [fn |-> "runSimulationTick", state |-> simulationState,
                             dischargeRolls |-> {}, driftRolls |-> <<>>]
    /\ lastOp' = "tick"
    /\ UNCHANGED <<now, initialized, pc, callAfter, callResult>>

NextDrift == InitializeDrift \/ StopDrift \/ TickDrift

SpecDrift == Init /\ [][NextDrift]_vars

(***************************************************************************)
(* The exported functions of rebalancer.ts called on their own.  The       *)
(* argument is an assignment list the program builds: the initial          *)
(* assignment of a patient list, or the solver's output for it.            *)
(***************************************************************************)
CallPatients(maxLen, units) ==
    UNION {{[k \in 1..n |-> Patient(0, k - 1, unit[k], acuity[k])] :
               unit \in [1..n -> units], acuity \in [1..n -> AcuityDraws]} :
           n \in 0..maxLen}

CallAssignments(maxLen, units) ==
    {createImbalancedInitialAssignments(patients) : patients \in CallPatients(maxLen, units)}
    \cup {assignPatientsToNurses(patients, reassignStaffToUnits(patients)) :
             patients \in CallPatients(maxLen, units)}

\* no simulation operation has run; the argument of the call is set
CallInit ==
    /\ simulationState = ModuleLoadState
    /\ now = 0
    /\ lastOp = "load"
    /\ initialized = FALSE
    /\ pc = "ready"
    /\ callAfter = NoCall
    /\ callResult = NoCall

InitSuggest ==
    /\ CallInit
    /\ \E assignments \in CallAssignments(CallPop, LastUnits(CallUnitKinds)) :
           callInput = [fn |-> "generateRebalancingSuggestions", assignments |-> assignments]

\* suggestions = generateRebalancingSuggestions(assignments)
CallSuggest ==
    /\ pc = "ready"
    /\ callInput.fn = "generateRebalancingSuggestions"
    /\ callResult' = [fn |-> callInput.fn,
                      value |-> generateRebalancingSuggestions(callInput.assignments)]
    /\ callAfter' = [callInput EXCEPT !.assignments = AssignmentsAfterSuggest(@)]
    /\ pc' = "done"
    /\ UNCHANGED <<simulationState, now, lastOp, initialized, callInput>>

SpecSuggest == InitSuggest /\ [][CallSuggest]_vars

PatientIdsOf(assignments) ==
    UNION {{assignments[k].patients[j].id : j \in DOMAIN assignments[k].patients} :
           k \in DOMAIN assignments}

NurseIds == {STATIC_STAFF[k].id : k \in DOMAIN STATIC_STAFF}

\* applySuggestion reads fromNurseId, toNurseId and patientId of its suggestion
InitApply ==
    /\ CallInit
    /\ \E assignments \in CallAssignments(ApplyPop, LastUnits(CallUnitKinds)) :
       \E from \in NurseIds, to \in NurseIds :
       \E patientId \in {<<0, i>> : i \in 0..(ApplyPop - 1)} :
           callInput = [fn |-> "applySuggestion", assignments |-> assignments,
                        suggestion |-> [fromNurseId |-> from, toNurseId |-> to,
                                        patientId |-> patientId]]

\* updated = applySuggestion(assignments, suggestion); map, filter and the
\* spreads build new objects, the argument is written nowhere
CallApply ==
    /\ pc = "ready"
    /\ callInput.fn = "applySuggestion"
    /\ callResult' = [fn |-> callInput.fn,
                      value |-> applySuggestion(callInput.assignments, callInput.suggestion)]
    /\ callAfter' = callInput
    /\ pc' = "done"
    /\ UNCHANGED <<simulationState, now, lastOp, initialized, callInput>>

SpecApply == InitApply /\ [][CallApply]_vars

(***************************************************************************)
(* initializeSimulation called on its own, with every acuity level.        *)
(***************************************************************************)
\* initialPatientCount: number = 30
DefaultPatientCount == 30

\* Math.floor(Math.random() * 5) + 1
Acuities == 1..5

\* the subsets of 1..n of at most k elements
RECURSIVE SmallSubsets(_, _)
SmallSubsets(n, k) ==
    IF k = 0 THEN {{}}
    ELSE LET fewer == SmallSubsets(n, k - 1)
         IN  fewer \cup {S \cup {i} : S \in fewer, i \in 1..n}

\* n draws, all of one level but for those at the positions `varied`
AcuityVectors(n, varied) ==
    UNION {{[k \in 1..n |-> IF k \in varied THEN other[k] ELSE level] :
               other \in [varied -> Acuities \ {level}]} : level \in Acuities}

InitInitialize ==
    /\ CallInit
    /\ callInput = NoCall

InitializeCall ==
    /\ pc = "ready"
    /\ \E n \in (0..InitPop) \cup {DefaultPatientCount} :
       \E varied \in SmallSubsets(Min2(n, InitPop), InitVaried) :
       \E acuities \in AcuityVectors(n, varied) :
           /\ simulationState' = initializeSimulation(n, acuities, now)
           /\ callInput' = [fn |-> "initializeSimulation", initialPatientCount |-> n]
    /\ lastOp' = "initialize"
    /\ initialized' = TRUE
    /\ pc' = "done"
    /\ UNCHANGED <<now, callAfter, callResult>>

SpecInitialize == InitInitialize /\ [][InitializeCall]_vars

(***************************************************************************)
(* calculateBalanceMetric called on its own.  The argument holds the       *)
(* records of the first n roster members, n from 0 (the empty list) to 10, *)
(* with every combination of patient counts up to MetricCount; the         *)
(* function reads nothing but the lengths of the patient lists.            *)
(***************************************************************************)
\* the count sequences of length n that do not decrease and end at or below top
RECURSIVE CountVectors(_, _)
CountVectors(n, top) ==
    IF n = 0 THEN {<<>>}
    ELSE UNION {{Append(v, c) : v \in CountVectors(n - 1, c)} : c \in 0..top}

\* the record of roster member k holding `count` patients of the roster unit
MetricAssignment(k, count) ==
    InitialAssignment(STATIC_STAFF[k],
        [j \in 1..count |-> Patient(0, MetricCount * k + j, STATIC_STAFF[k].unit, 1)])

InitMetric ==
    /\ CallInit
    /\ \E n \in 0..Len(STATIC_STAFF) : \E counts \in CountVectors(n, MetricCount) :
           callInput = [fn |-> "calculateBalanceMetric",
                        assignments |-> [k \in 1..n |-> MetricAssignment(k, counts[k])]]

\* calculateBalanceMetric(assignments); it writes nothing
CallMetric ==
    /\ pc = "ready"
    /\ callInput.fn = "calculateBalanceMetric"
    /\ callResult' = [fn |-> callInput.fn,
                      value |-> calculateBalanceMetric(callInput.assignments)]
    /\ callAfter' = callInput
    /\ pc' = "done"
    /\ UNCHANGED <<simulationState, now, lastOp, initialized, callInput>>

SpecMetric == InitMetric /\ [][CallMetric]_vars

(***************************************************************************)
(* The recommendation endpoints of rebalancer.ts called in turn on the     *)
(* ward: staffflow.getRebalancingSuggestions, then staffflow.applySuggestion *)
(* with the fromNurseId, toNurseId and patientId of a suggestion returned. *)
(* callResult keeps what the first returned, callInput the input of the    *)
(* second.                                                                 *)
(***************************************************************************)
\* generateDynamicPatients(15), line 437
DynamicPatientCount == 15

\* generateDynamicPatients(count): the lists whose units go round from one
\* unit on and whose acuities are all one level
DynamicPatientDraws(count, clock) ==
    {[k \in 1..count |->
         Patient(clock, k - 1, Units[((k - 1 + first) % Len(Units)) + 1], acuity)] :
        first \in 0..(Len(Units) - 1), acuity \in Acuities}

\* assignments.filter(a => a.unit === input.unit) when a unit is given
FilterByUnit(assignments, unit) ==
    SelectSeq(assignments, LAMBDA a : unit = NoUnit \/ a.unit = unit)

InitializeEndpoint == pc = "idle" /\ InitializeWard

ClockAdvanceEndpoint == pc \in {"idle", "suggested"} /\ ClockAdvance

\* lines 355-379: the suggestions are computed on the state's assignment
\* objects, which the computation writes to
GetRebalancingSuggestionsCall ==
    /\ pc = "idle"
    /\ \E unit \in UnitFilters :
           /\ simulationState' =
                  IF Len(simulationState.assignments) = 0 THEN simulationState
                  ELSE [simulationState EXCEPT
                           !.assignments = AssignmentsAfterQuery(@, unit)]
           /\ callResult' =
                  [fn |-> "getRebalancingSuggestions",
                   suggestions |->
                       IF Len(simulationState.assignments) = 0 THEN <<>>
                       ELSE generateRebalancingSuggestions(
                                FilterByUnit(simulationState.assignments, unit))]
    /\ lastOp' = "getRebalancingSuggestions"
    /\ pc' = "suggested"
    /\ UNCHANGED <<now, initialized, callInput, callAfter>>

\* lines 426-470: the transfer is applied to the assignment of 15 patients
\* generated for this call and the outcome is returned; simulationState is
\* neither read nor written
ApplySuggestionCall ==
    /\ pc = "suggested"
    /\ \E k \in DOMAIN callResult.suggestions : \E unit \in UnitFilters :
       \E patients \in DynamicPatientDraws(DynamicPatientCount, now) :
           LET input == [fn |-> "applySuggestion",
                         fromNurseId |-> callResult.suggestions[k].fromNurseId,
                         toNurseId |-> callResult.suggestions[k].toNurseId,
                         patientId |-> callResult.suggestions[k].patientId,
                         unit |-> unit]
               assignments == FilterByUnit(
                                  assignPatientsToNurses(patients, STATIC_STAFF), unit)
           IN  /\ callInput' = input
               /\ callAfter' = [fn |-> "applySuggestion", success |-> TRUE,
                                assignments |-> applySuggestion(assignments, input)]
    /\ lastOp' = "applySuggestion"
    /\ pc' = "applied"
    /\ UNCHANGED <<simulationState, now, initialized, callResult>>

NextEndpoint ==
    \/ InitializeEndpoint \/ ClockAdvanceEndpoint
    \/ GetRebalancingSuggestionsCall \/ ApplySuggestionCall

SpecEndpoint == Init /\ [][NextEndpoint]_vars

(***************************************************************************)
(* The dashboard: the SimulationControls component and the endpoints its   *)
(* handlers call.  callInput keeps the component's state (autoRun, and     *)
(* whether the getSimulationState query has delivered `state`), callAfter  *)
(* the runTick mutation: whether a request is pending and whether the      *)
(* button or the auto-run interval sent it.  A handler that awaits the     *)
(* server and then sets the component's state is one step; the tick        *)
(* request is sent in one step and served in another, so that isPending    *)
(* is seen by the button.  One tick request is in flight at a time.  The   *)
(* patient count (30 in the dashboard's calls) is kept within MaxInit and  *)
(* the rolls of a tick within QuietEvents.                                 *)
(***************************************************************************)
Controls(autoRun, state) ==
    [fn |-> "SimulationControls", autoRun |-> autoRun, state |-> state]

RunTickMutation(isPending, by) ==
    [fn |-> "runTickMutation", isPending |-> isPending, by |-> by]

\* the component is mounted on a server that has just loaded the module
InitDashboard ==
    /\ simulationState = ModuleLoadState
    /\ now = 0
    /\ lastOp = "load"
    /\ initialized = FALSE
    /\ pc = "mounted"
    /\ callInput = Controls(FALSE, FALSE)
    /\ callAfter = RunTickMutation(FALSE, "none")
    /\ callResult = NoCall

\* trpc.staffflow.getSimulationState.useQuery() delivers the state object
StateQueryLoads ==
    /\ ~callInput.state
    /\ callInput' = [callInput EXCEPT !.state = TRUE]
    /\ lastOp' = "getSimulationState"
    /\ UNCHANGED <<simulationState, now, initialized, pc, callAfter, callResult>>

\* "Initialize Simulation", shown while `state` is not there: handleInit
HandleInit ==
    /\ ~callInput.state
    /\ \E n \in 0..MaxInit : \E acuities \in [1..n -> AcuityDraws] :
           simulationState' = initializeSimulation(n, acuities, now)
    /\ lastOp' = "initialize"
    /\ initialized' = TRUE
    /\ callInput' = [callInput EXCEPT !.state = TRUE]  \* getSimulationState.invalidate()
    /\ UNCHANGED <<now, pc, callAfter, callResult>>

\* "Start Auto-Run", shown when autoRun is off: handleStart
HandleStart ==
    /\ callInput.state /\ ~callInput.autoRun
    /\ simulationState' = startSimulation(simulationState)
    /\ lastOp' = "start"
    /\ callInput' = [callInput EXCEPT !.autoRun = TRUE]
    /\ UNCHANGED <<now, initialized, pc, callAfter, callResult>>

\* "Stop Auto-Run", shown when autoRun is on: handleStop
HandleStop ==
    /\ callInput.state /\ callInput.autoRun
    /\ simulationState' = stopSimulation(simulationState)
    /\ lastOp' = "stop"
    /\ callInput' = [callInput EXCEPT !.autoRun = FALSE]
    /\ UNCHANGED <<now, initialized, pc, callAfter, callResult>>

\* "Reset": handleReset
HandleReset ==
    /\ callInput.state
    /\ \E n \in 0..MaxInit : \E acuities \in [1..n -> AcuityDraws] :
           simulationState' = resetSimulation(n, acuities, now)
    /\ lastOp' = "reset"
    /\ initialized' = TRUE
    /\ callInput' = [callInput EXCEPT !.autoRun = FALSE]
    /\ UNCHANGED <<now, pc, callAfter, callResult>>

\* "Run Single Tick", disabled={runTickMutation.isPending || autoRun}:
\* handleRunTick sends the request
RunSingleTickClick ==
    /\ callInput.state
    /\ ~(callAfter.isPending \/ callInput.autoRun)
    /\ callAfter' = RunTickMutation(TRUE, "button")
    /\ UNCHANGED <<simulationState, now, lastOp, initialized, pc, callInput, callResult>>

\* setInterval(() => handleRunTick(), 5000) while autoRun is on
IntervalFires ==
    /\ callInput.autoRun
    /\ ~callAfter.isPending
    /\ callAfter' = RunTickMutation(TRUE, "interval")
    /\ UNCHANGED <<simulationState, now, lastOp, initialized, pc, callInput, callResult>>

\* the runTick endpoint serves the request: runSimulationTick()
RunTickServed ==
    /\ callAfter.isPending
    /\ simulationState.isRunning => simulationState.tick < MaxTick
    /\ IF simulationState.isRunning
       THEN \E dischargeRolls \in BoundedSubsets(Len(simulationState.patients), QuietEvents) :
            LET kept == Len(Discharge(simulationState.patients, dischargeRolls))
                left == QuietEvents - Cardinality(dischargeRolls)
            IN  \E admissions \in AdmissionDraws(Min2(left, MaxInit - kept)) :
                \E driftOn \in BoundedSubsets(kept + Len(admissions),
                                              left - Len(admissions)) :
                \E driftRolls \in [driftOn -> {-1, 1}] :
                    simulationState' = runSimulationTick(simulationState, now,
                        dischargeRolls, admissions, driftRolls, <<>>)
       ELSE simulationState' = runSimulationTick(simulationState, now, {}, <<>>, <<>>, <<>>)
    /\ lastOp' = "tick"
    /\ callAfter' = RunTickMutation(FALSE, "none")
    /\ UNCHANGED <<now, initialized, pc, callInput, callResult>>

NextDashboard ==
    \/ StateQueryLoads \/ HandleInit \/ HandleStart \/ HandleStop \/ HandleReset
    \/ RunSingleTickClick \/ IntervalFires \/ RunTickServed \/ ClockAdvance

SpecDashboard == InitDashboard /\ [][NextDashboard]_vars

(***************************************************************************)
(* The convergence run: initializeSimulation(30) and then ConvergeTicks    *)
(* ticks, as in the README's "within 20 ticks", with the balance metric    *)
(* read after every tick: callResult keeps the statuses seen.  The acuity  *)
(* draws are all of one level but for at most InitVaried of the first      *)
(* InitPop; the rolls of a tick are kept within QuietEvents.               *)
(***************************************************************************)
\* "Convergence achieves IDEAL status within 20 ticks"
ConvergeTicks == 20

InitializeConverge ==
    /\ pc = "idle"
    /\ \E varied \in SmallSubsets(InitPop, InitVaried) :
       \E acuities \in AcuityVectors(DefaultPatientCount, varied) :
           simulationState' = initializeSimulation(DefaultPatientCount, acuities, now)
    /\ lastOp' = "initialize"
    /\ initialized' = TRUE
    /\ pc' = "running"
    /\ callResult' = [fn |-> "calculateBalanceMetric", seen |-> {}]
    /\ UNCHANGED <<now, callInput, callAfter>>

\* runSimulationTick() with at most QuietEvents rolls that hit, then
\* calculateBalanceMetric(getSimulationState().assignments)
TickConverge ==
    /\ pc = "running"
    /\ simulationState.tick < ConvergeTicks
    /\ \E dischargeRolls \in SmallSubsets(Len(simulationState.patients), QuietEvents) :
       LET kept == Len(Discharge(simulationState.patients, dischargeRolls))
           left == QuietEvents - Cardinality(dischargeRolls)
       IN  \E admissions \in AdmissionDraws(left) :
           \E driftOn \in SmallSubsets(kept + Len(admissions), left - Len(admissions)) :
           \E driftRolls \in [driftOn -> {-1, 1}] :
               simulationState' = runSimulationTick(simulationState, now,
                   dischargeRolls, admissions, driftRolls, <<>>)
    /\ callResult' = [callResult EXCEPT !.seen =
                         @ \cup {calculateBalanceMetric(simulationState'.assignments).metric}]
    /\ lastOp' = "tick"
    /\ UNCHANGED <<now, initialized, pc, callInput, callAfter>>

NextConverge == InitializeConverge \/ TickConverge

SpecConverge == Init /\ [][NextConverge]_vars

(***************************************************************************)
(* assignPatientsToNurses called on its own, with the roster as it is and  *)
(* with the roster as a tick's reassignment leaves it.                     *)
(***************************************************************************)
InitAssign ==
    /\ CallInit
    /\ \E patients \in CallPatients(AssignPop, LastUnits(CallUnitKinds)) :
       \E staff \in {STATIC_STAFF, reassignStaffToUnits(patients)} :
           callInput = [fn |-> "assignPatientsToNurses", patients |-> patients,
                        staff |-> staff]

\* assignments = assignPatientsToNurses(patients, staff); the patient list is
\* copied before it is sorted and the staff objects are spread
CallAssign ==
    /\ pc = "ready"
    /\ callInput.fn = "assignPatientsToNurses"
    /\ callResult' = [fn |-> callInput.fn,
                      value |-> assignPatientsToNurses(callInput.patients, callInput.staff)]
    /\ callAfter' = callInput
    /\ pc' = "done"
    /\ UNCHANGED <<simulationState, now, lastOp, initialized, callInput>>

SpecAssign == InitAssign /\ [][CallAssign]_vars

(***************************************************************************)
(* generateRebalancingSuggestions called on its own on the assignments of  *)
(* up to SuggestPop patients of every acuity level: the initial assignment *)
(* of initializeSimulation(n), or what a tick's solver makes of the same   *)
(* patients.  The acuity draws are all of one level but for at most        *)
(* InitVaried of the first InitPop.                                        *)
(***************************************************************************)
InitialPatients(n, acuities) ==
    [k \in 1..n |-> Patient(0, k - 1, Units[((k - 1) % Len(Units)) + 1], acuities[k])]

InitSuggestAll ==
    /\ CallInit
    /\ \E n \in 0..SuggestPop :
       \E varied \in SmallSubsets(Min2(n, InitPop), InitVaried) :
       \E acuities \in AcuityVectors(n, varied) :
       \E assignments \in
              {createImbalancedInitialAssignments(InitialPatients(n, acuities)),
               assignPatientsToNurses(InitialPatients(n, acuities),
                   reassignStaffToUnits(InitialPatients(n, acuities)))} :
           callInput = [fn |-> "generateRebalancingSuggestions", assignments |-> assignments]

SpecSuggestAll == InitSuggestAll /\ [][CallSuggest]_vars

(***************************************************************************)
(* The schedule: initializeSimulation(n) and then up to AutoTick ticks,    *)
(* past the tick at which the auto-apply schedule stops changing.  Every   *)
(* tick is called a millisecond after the call before it.  The admission   *)
(* roll hits in the first AdmitTicks ticks only and admits patients of one *)
(* unit and one acuity; no other roll hits.                                *)
(***************************************************************************)
InitializeAuto ==
    /\ pc = "idle"
    /\ \E n \in 0..AutoInit : \E acuities \in AcuityVectors(n, {}) :
           simulationState' = initializeSimulation(n, acuities, now)
    /\ lastOp' = "initialize"
    /\ initialized' = TRUE
    /\ pc' = "running"
    /\ UNCHANGED <<now, callInput, callAfter, callResult>>

\* up to 3 admitted patients, alike in unit and acuity
AdmissionsAlike(room) ==
    {[k \in 1..count |-> [unit |-> unit, acuity |-> acuity]] :
        count \in 0..Max2(0, Min2(3, room)),
        unit \in AdmissionUnitDraws,
        acuity \in Max2(1, 6 - AdmitKinds)..5}

TickAuto ==
    /\ pc = "running"
    /\ simulationState.tick < AutoTick
    /\ now' = now + 1
    /\ \E admissions \in AdmissionsAlike(IF simulationState.tick < AdmitTicks
                                          THEN AutoPop - Len(simulationState.patients)
                                          ELSE 0) :
           simulationState' = runSimulationTick(simulationState, now',
                                  {}, admissions, <<>>, <<>>)
    /\ lastOp' = "tick"
    /\ UNCHANGED <<initialized, harness>>

NextAuto == InitializeAuto \/ TickAuto

SpecAuto == Init /\ [][NextAuto]_vars

(***************************************************************************)
(* The sweep: initializeSimulation(n), n up to the default count, with     *)
(* acuity draws all of one level, and then ticks whose rolls gather the    *)
(* ward in one unit: of the patients outside that unit some are discharged *)
(* and all the others are transferred.  No patient is admitted and no      *)
(* acuity drifts.                                                          *)
(***************************************************************************)
InitializeSweep ==
    /\ pc = "idle"
    /\ \E n \in 0..DefaultPatientCount : \E acuities \in AcuityVectors(n, {}) :
           simulationState' = initializeSimulation(n, acuities, now)
    /\ lastOp' = "initialize"
    /\ initialized' = TRUE
    /\ pc' = "running"
    /\ UNCHANGED <<now, callInput, callAfter, callResult>>

\* the positions of the patients that are not in the unit
OutsideOf(patients, unit) == SelectSeq(Indices(patients), LAMBDA k : patients[k].unit # unit)

TickSweep ==
    /\ pc = "running"
    /\ simulationState.tick < SweepTick
    /\ \E unit \in UnitSet :
       LET outside == OutsideOf(simulationState.patients, unit)
       IN  \E count \in 0..Len(outside) :
           LET dischargeRolls == {outside[i] : i \in 1..count}
               kept == Discharge(simulationState.patients, dischargeRolls)
               transferOn == {k \in DOMAIN kept : kept[k].unit # unit}
               transferRolls == [k \in transferOn |->
                                    IF kept[k].acuity \in {2, 3} THEN unit ELSE Units[1]]
           IN  simulationState' = runSimulationTick(simulationState, now,
                   dischargeRolls, <<>>, <<>>, transferRolls)
    /\ lastOp' = "tick"
    /\ UNCHANGED <<now, initialized, harness>>

NextSweep == InitializeSweep \/ TickSweep

SpecSweep == Init /\ [][NextSweep]_vars

(***************************************************************************)
(* assignPatientsToNurses called on its own on up to WidePop patients of   *)
(* every acuity level, their units in rotation as initializeSimulation     *)
(* deals them or all one unit as admissions can make them.  The acuity     *)
(* draws are all of one level but for at most InitVaried of the first      *)
(* InitPop.                                                                *)
(***************************************************************************)
GatheredPatients(n, acuities, unit) ==
    [k \in 1..n |-> Patient(0, k - 1, unit, acuities[k])]

InitAssignAll ==
    /\ CallInit
    /\ \E n \in 0..WidePop :
       \E varied \in SmallSubsets(Min2(n, InitPop), InitVaried) :
       \E acuities \in AcuityVectors(n, varied) :
       \E patients \in {InitialPatients(n, acuities)}
                           \cup {GatheredPatients(n, acuities, unit) :
                                    unit \in LastUnits(GatherKinds)} :
       \E staff \in {STATIC_STAFF, reassignStaffToUnits(patients)} :
           callInput = [fn |-> "assignPatientsToNurses", patients |-> patients,
                        staff |-> staff]

SpecAssignAll == InitAssignAll /\ [][CallAssign]_vars

(***************************************************************************)
(* reassignStaffToUnits called on its own.  It reads of its argument only  *)
(* each unit's patient count and acuity total; the argument holds up to    *)
(* ReassignPop patients per unit, those of one unit of one acuity level.   *)
(***************************************************************************)
DemandLevels == {1, 3, 5}

\* the patients of the units from the k-th on, numbered from `from`
RECURSIVE UnitByUnit(_, _, _, _)
UnitByUnit(counts, levels, k, from) ==
    IF k > Len(Units) THEN <<>>
    ELSE [i \in 1..counts[k] |-> Patient(0, from + i - 1, Units[k], levels[k])]
             \o UnitByUnit(counts, levels, k + 1, from + counts[k])

InitReassign ==
    /\ CallInit
    /\ \E counts \in [DOMAIN Units -> 0..ReassignPop] :
       \E levels \in [DOMAIN Units -> DemandLevels] :
           /\ \A k \in DOMAIN Units : counts[k] = 0 => levels[k] = 1
           /\ callInput = [fn |-> "reassignStaffToUnits",
                           patients |-> UnitByUnit(counts, levels, 1, 0)]

\* updatedStaff = reassignStaffToUnits(patients): STATIC_STAFF is copied
\* object by object and the argument is only read
CallReassign ==
    /\ pc = "ready"
    /\ callInput.fn = "reassignStaffToUnits"
    /\ callResult' = [fn |-> callInput.fn, value |-> reassignStaffToUnits(callInput.patients)]
    /\ callAfter' = callInput
    /\ pc' = "done"
    /\ UNCHANGED <<simulationState, now, lastOp, initialized, callInput>>

SpecReassign == InitReassign /\ [][CallReassign]_vars

(***************************************************************************)
(* The churn: initializeSimulation and ticks at the clock values the       *)
(* calls happen at.  A tick records in callInput the state it found, the   *)
(* value of Date.now() and its discharge rolls and admissions.             *)
(***************************************************************************)
InitializeChurn ==
    /\ \E n \in 0..MaxInit : \E acuities \in [1..n -> AcuityDraws] :
           simulationState' = initializeSimulation(n, acuities, now)
    /\ lastOp' = "initialize"
    /\ initialized' = TRUE
    /\ callInput' = NoCall
    /\ UNCHANGED <<now, pc, callAfter, callResult>>

TickChurn ==
    /\ simulationState.isRunning
    /\ simulationState.tick < MaxTick
    /\ \E dischargeRolls \in BoundedSubsets(Len(simulationState.patients), MaxEvents) :
       LET kept == Len(Discharge(simulationState.patients, dischargeRolls))
           left == MaxEvents - Cardinality(dischargeRolls)
       IN  \E admissions \in AdmissionDraws(DriftPop - kept) :
           \E driftOn \in BoundedSubsets(kept + Len(admissions), left) :
           \E driftRolls \in [driftOn -> {-1, 1}] :
           \E transferOn \in BoundedSubsets(kept + Len(admissions),
                                            left - Cardinality(driftOn)) :
           \E transferRolls \in TransferDraws(
                   AcuityChanges(Admit(Discharge(simulationState.patients,
                       dischargeRolls), admissions, now), driftRolls), transferOn) :
               /\ simulationState' = runSimulationTick(simulationState, now,
                       dischargeRolls, admissions, driftRolls, transferRolls)
               /\ callInput' = [fn |-> "runSimulationTick", state |-> simulationState,
                                clock |-> now, dischargeRolls |-> dischargeRolls,
                                admissions |-> admissions]
    /\ lastOp' = "tick"
    /\ UNCHANGED <<now, initialized, pc, callAfter, callResult>>

NextChurn == InitializeChurn \/ TickChurn \/ ClockAdvance

SpecChurn == Init /\ [][NextChurn]_vars

(***************************************************************************)
(* applySuggestion called on its own on the assignments of up to           *)
(* ApplyWidePop patients of one acuity level, their units in rotation or   *)
(* all one unit: the initial assignment of the list or the solver's output *)
(* for it with the static roster, as the applySuggestion endpoint builds   *)
(* it.  The suggestion names any two nurses and any patient of the list,   *)
(* or one that is not in it.                                               *)
(***************************************************************************)
InitApplyAll ==
    /\ CallInit
    /\ \E n \in 0..ApplyWidePop :
       \E acuities \in AcuityVectors(n, {}) :
       \E patients \in {InitialPatients(n, acuities)}
                           \cup {GatheredPatients(n, acuities, unit) :
                                    unit \in LastUnits(GatherKinds)} :
       \E assignments \in {createImbalancedInitialAssignments(patients),
                           assignPatientsToNurses(patients, STATIC_STAFF)} :
       \E from \in NurseIds, to \in NurseIds :
       \E patientId \in {<<0, i>> : i \in 0..n} :
           callInput = [fn |-> "applySuggestion", assignments |-> assignments,
                        suggestion |-> [fromNurseId |-> from, toNurseId |-> to,
                                        patientId |-> patientId]]

SpecApplyAll == InitApplyAll /\ [][CallApply]_vars

(***************************************************************************)
(* The numbers of runSimulationTick's randomness decay.  The code computes *)
(* them in IEEE 754 doubles, rounding every operation to the nearest       *)
(* 53-bit value, ties to even.  A whole number is kept here as the list of *)
(* its digits in base 2^13, lowest first, and a positive double as [m, x]: *)
(* m the five digits of its 53-bit significand, 2^52 <= m < 2^53, and x    *)
(* the power of two of its lowest bit, so that its value is m * 2^x.  All  *)
(* the values that occur are positive and normal.                          *)
(***************************************************************************)
LimbAt(a, k) == IF k \in DOMAIN a THEN a[k] ELSE 0

\* the number of bits of a, 0 for zero
BitLength(a) ==
    IF \A k \in DOMAIN a : a[k] = 0 THEN 0
    ELSE LET top == CHOOSE k \in DOMAIN a :
                        a[k] # 0 /\ \A j \in DOMAIN a : j > k => a[j] = 0
         IN  13 * (top - 1) + (CHOOSE n \in 1..13 : 2^(n - 1) <= a[top] /\ a[top] < 2^n)

\* bit k of a, the lowest being bit 0
BitAt(a, k) == (LimbAt(a, (k \div 13) + 1) \div 2^(k % 13)) % 2

\* a without its d lowest bits
ShiftRight(a, d) ==
    [j \in 1..Len(a) |->
        (LimbAt(a, j + (d \div 13)) \div 2^(d % 13))
            + (LimbAt(a, j + (d \div 13) + 1) % 2^(d % 13)) * 2^(13 - (d % 13))]

\* a * 2^d
ShiftLeft(a, d) ==
    [j \in 1..(Len(a) + (d \div 13) + 1) |->
        ((LimbAt(a, j - (d \div 13)) * 2^(d % 13)) % 2^13)
            + (LimbAt(a, j - (d \div 13) - 1) \div 2^(13 - (d % 13)))]

\* a + b + carry
RECURSIVE AddLimbs(_, _, _)
AddLimbs(a, b, carry) ==
    IF a = <<>> /\ b = <<>> THEN (IF carry = 0 THEN <<>> ELSE <<carry>>)
    ELSE LET s == LimbAt(a, 1) + LimbAt(b, 1) + carry
         IN  <<s % 2^13>> \o AddLimbs(IF a = <<>> THEN a ELSE Tail(a),
                                      IF b = <<>> THEN b ELSE Tail(b), s \div 2^13)

\* a - b - borrow, for a >= b + borrow
RECURSIVE SubLimbs(_, _, _)
SubLimbs(a, b, borrow) ==
    IF a = <<>> THEN <<>>
    ELSE LET d == a[1] - LimbAt(b, 1) - borrow
         IN  <<d % 2^13>> \o SubLimbs(Tail(a), IF b = <<>> THEN b ELSE Tail(b),
                                      IF d < 0 THEN 1 ELSE 0)

\* the sum of a[i] * b[k + 1 - i] over i = from..Len(a)
RECURSIVE ColumnSum(_, _, _, _)
ColumnSum(a, b, k, from) ==
    IF from > Len(a) THEN 0
    ELSE a[from] * LimbAt(b, k + 1 - from) + ColumnSum(a, b, k, from + 1)

\* the digits of the number whose columns are given
RECURSIVE CarryOver(_, _)
CarryOver(columns, carry) ==
    IF columns = <<>> THEN (IF carry = 0 THEN <<>> ELSE <<carry>>)
    ELSE <<(columns[1] + carry) % 2^13>>
             \o CarryOver(Tail(columns), (columns[1] + carry) \div 2^13)

MulLimbs(a, b) ==
    CarryOver([k \in 1..(Len(a) + Len(b)) |-> ColumnSum(a, b, k, 1)], 0)

LessLimbs(a, b) ==
    \E k \in DOMAIN a \cup DOMAIN b :
        /\ LimbAt(a, k) < LimbAt(b, k)
        /\ \A j \in DOMAIN a \cup DOMAIN b : j > k => LimbAt(a, j) = LimbAt(b, j)

\* the first `count` digits of r / q after the point, highest first, and
\* what is left of r, for r < q
RECURSIVE FractionLimbs(_, _, _)
FractionLimbs(r, q, count) ==
    IF count = 0 THEN [limbs |-> <<>>, rest |-> r]
    ELSE LET next == FractionLimbs((r * 2^13) % q, q, count - 1)
         IN  [limbs |-> <<(r * 2^13) \div q>> \o next.limbs, rest |-> next.rest]

Reversed(s) == [k \in 1..Len(s) |-> s[Len(s) + 1 - k]]

Significand(a) == [k \in 1..5 |-> LimbAt(a, k)]

\* the double nearest to n * 2^x, or to a little more than that when
\* `more` says that something was cut off below; ties go to the even one
RoundToDouble(n, x, more) ==
    LET cut == BitLength(n) - 53
    IN  IF cut <= 0 THEN [m |-> Significand(ShiftLeft(n, -cut)), x |-> x + cut]
        ELSE LET kept == ShiftRight(n, cut)
                 half == BitAt(n, cut - 1) = 1
                 below == more \/ \E k \in 0..(cut - 2) : BitAt(n, k) = 1
                 up == half /\ (below \/ BitAt(kept, 0) = 1)
                 rounded == IF up THEN AddLimbs(kept, <<1>>, 0) ELSE kept
             IN  IF BitLength(rounded) = 54
                 THEN [m |-> Significand(ShiftRight(rounded, 1)), x |-> x + cut + 1]
                 ELSE [m |-> Significand(rounded), x |-> x + cut]

\* the double nearest to p / q: what a decimal literal such as 0.7 = 7/10
\* denotes, and the quotient of two whole numbers
DoubleOfRatio(p, q) ==
    LET fraction == FractionLimbs(p % q, q, 6)
    IN  RoundToDouble(Reversed(fraction.limbs) \o <<p \div q>>, -78, fraction.rest # 0)

\* the significand of a at the lower of the two exponents
AlignedLimbs(a, b) == ShiftLeft(a.m, a.x - (IF a.x < b.x THEN a.x ELSE b.x))

DoubleLess(a, b) == LessLimbs(AlignedLimbs(a, b), AlignedLimbs(b, a))

\* a * b
DoubleTimes(a, b) == RoundToDouble(MulLimbs(a.m, b.m), a.x + b.x, FALSE)

\* a - b, for a > b
DoubleMinus(a, b) ==
    RoundToDouble(SubLimbs(AlignedLimbs(a, b), AlignedLimbs(b, a), 0),
                  IF a.x < b.x THEN a.x ELSE b.x, FALSE)

\* Math.min(a, b)
DoubleMin(a, b) == IF DoubleLess(b, a) THEN b ELSE a

\* const convergenceFactor = Math.min(currentTick / 20, 1)
convergenceFactor(currentTick) ==
    DoubleMin(DoubleOfRatio(currentTick, 20), DoubleOfRatio(1, 1))

\* const randomnessFactor = 1 - convergenceFactor * 0.7
randomnessFactor(currentTick) ==
    DoubleMinus(DoubleOfRatio(1, 1),
                DoubleTimes(convergenceFactor(currentTick), DoubleOfRatio(7, 10)))

\* patient.acuity === 1 ? 0.2 : ... : 0.02
baseDischargeChance(acuity) ==
    IF acuity = 1 THEN DoubleOfRatio(2, 10)
    ELSE IF acuity = 2 THEN DoubleOfRatio(15, 100)
    ELSE IF acuity = 3 THEN DoubleOfRatio(1, 10)
    ELSE IF acuity = 4 THEN DoubleOfRatio(5, 100)
    ELSE DoubleOfRatio(2, 100)

adjustedDischargeChance(acuity, factor) == DoubleTimes(baseDischargeChance(acuity), factor)

adjustedAdmissionChance(factor) == DoubleTimes(DoubleOfRatio(3, 10), factor)

\* variant: the fixed 20% of simulateAcuityChanges
acuityChangeChanceFixed(factor) == DoubleOfRatio(2, 10)

acuityChangeChance(factor) == DoubleTimes(DoubleOfRatio(2, 10), factor)

transferChance(factor) == DoubleTimes(DoubleOfRatio(5, 100), factor)

\* any tick counter up to DecayTick - 1 is before the call, and the
\* patient whose discharge chance is computed has any acuity
InitDecay ==
    /\ CallInit
    /\ \E tick \in 0..(DecayTick - 1), acuity \in Acuities :
           callInput = [fn |-> "runSimulationTick chances", tick |-> tick, acuity |-> acuity]

\* the chances that the tick advancing the counter to tick + 1 rolls against
CallDecay ==
    /\ pc = "ready"
    /\ callInput.fn = "runSimulationTick chances"
    /\ LET currentTick == callInput.tick + 1
           factor == randomnessFactor(currentTick)
       IN  callResult' = [fn |-> callInput.fn,
                          currentTick |-> currentTick,
                          randomnessFactor |-> factor,
                          adjustedDischargeChance |->
                              adjustedDischargeChance(callInput.acuity, factor),
                          adjustedAdmissionChance |-> adjustedAdmissionChance(factor),
                          acuityChangeChance |-> acuityChangeChance(factor),
                          transferChance |-> transferChance(factor)]
    /\ callAfter' = callInput
    /\ pc' = "done"
    /\ UNCHANGED <<simulationState, now, lastOp, initialized, callInput>>

SpecDecay == InitDecay /\ [][CallDecay]_vars

(***************************************************************************)
(* Properties.                                                             *)
(***************************************************************************)
PairwiseDistinctIds(patients) ==
    \A j, k \in DOMAIN patients : j # k => patients[j].id # patients[k].id

\* how often the id occurs over all assignments' patient lists
RECURSIVE ListedCount(_, _)
ListedCount(assignments, id) ==
    IF assignments = <<>> THEN 0
    ELSE CountId(assignments[1].patients, id) + ListedCount(Tail(assignments), id)

\* C1: in every reachable state (here: every one whose patient list has
\* pairwise distinct ids) no patient id occurs more than once over all
\* assignments' patient lists, neither in two lists nor twice in one.
PatientListedAtMostOnce ==
    PairwiseDistinctIds(simulationState.patients) =>
        \A id \in PatientIdsOf(simulationState.assignments) :
            ListedCount(simulationState.assignments, id) <= 1

\* C2: generateRebalancingSuggestions leaves its argument as it was: once the
\* call has returned, every assignment's patient list, workload and flags are
\* those passed in.
SuggestLeavesArgument ==
    (pc = "done" /\ callInput.fn = "generateRebalancingSuggestions") =>
        callAfter.assignments = callInput.assignments

\* C3: in every reachable state (here: every one whose patient list has
\* pairwise distinct ids) the workloads of all assignments sum to the summed
\* acuity of the patient list.
WorkloadSumIsAcuitySum ==
    PairwiseDistinctIds(simulationState.patients) =>
        SumWorkload(simulationState.assignments) = SumAcuity(simulationState.patients)

\* C4: in every reachable state each assignment's workload is the summed
\* acuity of the entries of its own patient list.
WorkloadIsOwnListSum ==
    \A k \in DOMAIN simulationState.assignments :
        simulationState.assignments[k].workload =
            SumAcuity(simulationState.assignments[k].patients)

\* a tick has applied one of its suggestions: the target lists the moved
\* patient twice, and its workload counts both entries
WorkloadIsOwnListSumWitness ==
    /\ simulationState.tick > 0
    /\ \E k \in DOMAIN simulationState.assignments :
           LET a == simulationState.assignments[k]
           IN  /\ \E j \in DOMAIN a.patients : CountId(a.patients, a.patients[j].id) = 2
               /\ a.workload = SumAcuity(a.patients)

\* C5: as long as neither initialize nor reset has been called, the state is
\* the empty one (tick 0, no patients, no assignments, no history), whatever
\* start, stop and tick calls have been made.
TickBeforeInitializeIsNoOp ==
    ~initialized =>
        /\ simulationState.tick = 0
        /\ simulationState.patients = <<>>
        /\ simulationState.assignments = <<>>
        /\ simulationState.workloadHistory = <<>>

\* C6: a tick called while the running flag is false changes no field of the
\* state.
StoppedTickChangesNothing ==
    [][(lastOp' = "tick" /\ ~simulationState.isRunning) =>
            simulationState' = simulationState]_vars

\* a tick has been called on a stopped simulation that had ticked before
StoppedTickChangesNothingWitness ==
    /\ lastOp = "tick"
    /\ ~simulationState.isRunning
    /\ simulationState.tick > 0
    /\ simulationState.patients # <<>>

\* C7: in every reachable state the workload history holds at most 50
\* snapshots.
HistoryAtMostFifty == Len(simulationState.workloadHistory) <= 50

\* more than 50 ticks have run and the history is full
HistoryAtMostFiftyWitness ==
    /\ simulationState.tick > 50
    /\ Len(simulationState.workloadHistory) = 50
    /\ simulationState.workloadHistory[1].tick = simulationState.tick - 49

\* C8: once initialize, reset or a tick has run, the assignment list holds
\* exactly one record per roster member: 10 records, one per roster id.
OneRecordPerRosterMember ==
    (initialized \/ simulationState.tick > 0) =>
        /\ Len(simulationState.assignments) = Len(STATIC_STAFF)
        /\ \A id \in NurseIds :
               Cardinality({k \in DOMAIN simulationState.assignments :
                               simulationState.assignments[k].nurseId = id}) = 1

\* a tick has stored assignments in which a staff member works outside the
\* roster unit
OneRecordPerRosterMemberWitness ==
    /\ simulationState.tick > 0
    /\ \E k \in DOMAIN simulationState.assignments :
           simulationState.assignments[k].unit #
               getStaffById(simulationState.assignments[k].nurseId).unit

\* C9: in every reachable state the patients of the patient list have
\* pairwise distinct ids.
PatientIdsDistinct == PairwiseDistinctIds(simulationState.patients)

ListOf(assignments, nurseId) == FindAssignment(assignments, nurseId)[1].patients

\* S and T differ, S holds P, T does not
MovePrecondition(assignments, suggestion) ==
    /\ suggestion.fromNurseId # suggestion.toNurseId
    /\ CountId(ListOf(assignments, suggestion.fromNurseId), suggestion.patientId) >= 1
    /\ CountId(ListOf(assignments, suggestion.toNurseId), suggestion.patientId) = 0

\* C10: for an assignment list in which S and T differ, S holds P and T does
\* not, applySuggestion returns a list in which S's patients lack P, T's hold
\* P exactly once, the workloads of S and T sum to what they summed to before,
\* every other assignment is the one passed in, and the argument is as it was.
ApplyMovesOnePatient ==
    (/\ pc = "done"
     /\ callInput.fn = "applySuggestion"
     /\ MovePrecondition(callInput.assignments, callInput.suggestion)) =>
        LET before == callInput.assignments
            after == callResult.value
            S == callInput.suggestion.fromNurseId
            T == callInput.suggestion.toNurseId
            P == callInput.suggestion.patientId
        IN  /\ CountId(ListOf(after, S), P) = 0
            /\ CountId(ListOf(after, T), P) = 1
            /\ FindAssignment(after, S)[1].workload + FindAssignment(after, T)[1].workload
                   = FindAssignment(before, S)[1].workload
                         + FindAssignment(before, T)[1].workload
            /\ Len(after) = Len(before)
            /\ \A k \in DOMAIN before :
                   before[k].nurseId \notin {S, T} => after[k] = before[k]
            /\ callAfter = callInput

\* the call has moved the one patient of the source to a target that held
\* another one
ApplyMovesOnePatientWitness ==
    /\ pc = "done"
    /\ callInput.fn = "applySuggestion"
    /\ MovePrecondition(callInput.assignments, callInput.suggestion)
    /\ Len(ListOf(callInput.assignments, callInput.suggestion.toNurseId)) = 1
    /\ Len(ListOf(callResult.value, callInput.suggestion.toNurseId)) = 2
    /\ ListOf(callResult.value, callInput.suggestion.fromNurseId) = <<>>

(***************************************************************************)
(* Start, stop and resumption.                                             *)
(***************************************************************************)
\* a start or a stop leaves every field but isRunning as it was
OnlyRunningFlagChanges ==
    lastOp' \in {"start", "stop"} =>
        simulationState' = [simulationState EXCEPT !.isRunning = (lastOp' = "start")]

\* the tick after stop and start has acted
Resumed == pc = "restarted" /\ lastOp = "tick"

\* the snapshots before the newest one
Earlier(workloadHistory) == SubSeq(workloadHistory, 1, Len(workloadHistory) - 1)

ResumedCounter ==
    /\ simulationState.tick = callInput.state.tick + 1
    /\ simulationState.isRunning
    /\ simulationState.workloadHistory # <<>>
    /\ simulationState.workloadHistory[Len(simulationState.workloadHistory)].tick
           = callInput.state.tick + 1

\* C11: start and stop change only the running flag (tick counter, history,
\* patients and assignments stay as they were); after stop, start and tick
\* the counter is the one before the stop plus 1 and the history is the one
\* before the stop plus one snapshot, without its oldest snapshot when it
\* already held 50.
StartStopKeepStateResumeCapped ==
    /\ [][OnlyRunningFlagChanges]_vars
    /\ [](Resumed =>
            /\ ResumedCounter
            /\ Earlier(simulationState.workloadHistory) =
                   IF Len(callInput.state.workloadHistory) < MaxHistory
                   THEN callInput.state.workloadHistory
                   ELSE Tail(callInput.state.workloadHistory))

\* C11 as stated: after stop, start and tick the history is the one before
\* the stop plus one snapshot, whatever its length was.
StartStopKeepStateResumeAppends ==
    /\ [][OnlyRunningFlagChanges]_vars
    /\ [](Resumed =>
            /\ ResumedCounter
            /\ Earlier(simulationState.workloadHistory) = callInput.state.workloadHistory)

\* stop, start and tick have run on a ward with a patient and a full history
StartStopKeepStateResumeCappedWitness ==
    /\ Resumed
    /\ callInput.state.patients # <<>>
    /\ callInput.state.isRunning
    /\ Len(callInput.state.workloadHistory) = MaxHistory
    /\ Len(simulationState.workloadHistory) = MaxHistory

(***************************************************************************)
(* The tick counter.                                                       *)
(***************************************************************************)
\* the step is a call of runSimulationTick (the clock stands still in it)
TickStep == lastOp' = "tick" /\ now' = now

\* C12: a tick of a running simulation increases the tick counter by exactly
\* 1 and leaves the running flag true; the counter changes in no other way
\* than by +1 in a running tick or to 0 in initialize or reset.
CounterStepsByOneOrToZero ==
    [][/\ (TickStep /\ simulationState.isRunning) =>
              /\ simulationState'.tick = simulationState.tick + 1
              /\ simulationState'.isRunning
       /\ simulationState'.tick # simulationState.tick =>
              \/ /\ TickStep
                 /\ simulationState.isRunning
                 /\ simulationState'.tick = simulationState.tick + 1
              \/ /\ lastOp' \in {"initialize", "reset"}
                 /\ simulationState'.tick = 0]_vars

\* a second running tick has counted on a ward with patients
CounterStepsByOneOrToZeroWitness ==
    /\ lastOp = "tick"
    /\ simulationState.isRunning
    /\ simulationState.tick = 2
    /\ Len(simulationState.workloadHistory) = 2
    /\ simulationState.patients # <<>>

(***************************************************************************)
(* Reset.                                                                  *)
(***************************************************************************)
\* C13: whatever state reset(n) is called on (running or stopped, any tick
\* count, any history), the state after it is one initialize(n) produces:
\* tick 0, running, empty history, n patients; its assignments are the
\* initial ones of its own patients, nothing is taken from the state before.
ResetIsInitialize ==
    pc = "reset" =>
        /\ simulationState.tick = 0
        /\ simulationState.isRunning
        /\ simulationState.workloadHistory = <<>>
        /\ Len(simulationState.patients) = callInput.initialPatientCount
        /\ \E acuities \in [1..callInput.initialPatientCount -> AcuityDraws] :
               simulationState =
                   initializeSimulation(callInput.initialPatientCount, acuities, now)

\* reset(1) has been called on a stopped ward that had ticked and whose
\* assignments were other ones
ResetIsInitializeWitness ==
    /\ pc = "reset"
    /\ callInput.initialPatientCount = 1
    /\ ~callInput.state.isRunning
    /\ callInput.state.tick > 1
    /\ Len(callInput.state.workloadHistory) > 1
    /\ callInput.state.patients # <<>>
    /\ callInput.state.assignments # simulationState.assignments

(***************************************************************************)
(* Initialisation.                                                         *)
(***************************************************************************)
InitializeDone == pc = "done" /\ callInput.fn = "initializeSimulation"

\* C14: initialize(n), n >= 0, produces a state with exactly n patients, the
\* i-th of them (from 0) in unit [ICU, ER, MEDSURG, PEDS][i mod 4] with an
\* acuity in 1..5 and its unit as its required skills, tick 0, running true
\* and an empty history.
InitializePostcondition ==
    InitializeDone =>
        /\ Len(simulationState.patients) = callInput.initialPatientCount
        /\ \A i \in 0..(callInput.initialPatientCount - 1) :
               LET patient == simulationState.patients[i + 1]
               IN  /\ patient.unit = <<"ICU", "ER", "MEDSURG", "PEDS">>[(i % 4) + 1]
                   /\ patient.acuity \in 1..5
                   /\ patient.requiredSkills = <<patient.unit>>
        /\ simulationState.tick = 0
        /\ simulationState.isRunning
        /\ simulationState.workloadHistory = <<>>

\* initialize(n) has run with n beyond one round of the four units, and
\* with both the lowest and the highest acuity drawn
InitializePostconditionWitness ==
    /\ InitializeDone
    /\ callInput.initialPatientCount = 6
    /\ simulationState.patients[6].unit = "ER"
    /\ simulationState.patients[6].acuity = 1
    /\ simulationState.patients[1].acuity = 5

\* the positions of the assignments that hold a patient of the unit
HoldersOf(assignments, unit) ==
    SelectSeq(Indices(assignments), LAMBDA k :
        \E j \in DOMAIN assignments[k].patients : assignments[k].patients[j].unit = unit)

PatientCounts(assignments) == [k \in DOMAIN assignments |-> Len(assignments[k].patients)]

\* n^2 times the population variance of the counts: n * sum of squares less
\* the square of the sum
ScaledVariance(counts) ==
    Len(counts) * SumSeq([k \in DOMAIN counts |-> counts[k] * counts[k]])
        - SumSeq(counts) * SumSeq(counts)

\* the population standard deviation of the counts is at most p / q
DeviationAtMost(counts, p, q) ==
    q * q * ScaledVariance(counts) <= p * p * Len(counts) * Len(counts)

\* C17: the balance metric of an assignment list is IDEAL when the maximum
\* per-staff patient count is <= 2 and the population standard deviation of
\* the counts is <= 1, else SUFFICIENT when the maximum is <= 4 and the
\* deviation is <= 1.5, else INADEQUATE; of the empty list it is IDEAL with
\* mean, deviation and maximum 0.
MetricThresholds ==
    (pc = "done" /\ callInput.fn = "calculateBalanceMetric") =>
        LET counts == PatientCounts(callInput.assignments)
            result == callResult.value
        IN  IF counts = <<>>
            THEN /\ result.metric = "IDEAL"
                 /\ result.averagePatientCount.num = 0
                 /\ result.standardDeviationSquared.num = 0
                 /\ result.maxPatientCount = 0
            ELSE /\ result.maxPatientCount = MaxOf(counts)
                 /\ result.metric =
                        IF MaxOf(counts) <= 2 /\ DeviationAtMost(counts, 1, 1)
                        THEN "IDEAL"
                        ELSE IF MaxOf(counts) <= 4 /\ DeviationAtMost(counts, 3, 2)
                        THEN "SUFFICIENT"
                        ELSE "INADEQUATE"

\* the call has rated the ten roster records with a deviation of exactly
\* 1.5 and a maximum of 3
MetricThresholdsWitness ==
    /\ pc = "done"
    /\ callInput.fn = "calculateBalanceMetric"
    /\ Len(callInput.assignments) = Len(STATIC_STAFF)
    /\ MaxOf(PatientCounts(callInput.assignments)) = 3
    /\ 4 * ScaledVariance(PatientCounts(callInput.assignments)) = 9 * 10 * 10
    /\ callResult.value.metric = "SUFFICIENT"

\* C16: right after initialize(30), at tick 0, the balance metric of the
\* state's assignments is INADEQUATE, whatever acuities were drawn.
InitialMetricInadequate ==
    (InitializeDone /\ callInput.initialPatientCount = 30) =>
        /\ simulationState.tick = 0
        /\ calculateBalanceMetric(simulationState.assignments).metric = "INADEQUATE"

\* initialize(30) has run with the lowest and the highest acuity drawn; one
\* staff member holds seven patients
InitialMetricInadequateWitness ==
    /\ InitializeDone
    /\ callInput.initialPatientCount = 30
    /\ simulationState.patients[1].acuity = 1
    /\ simulationState.patients[2].acuity = 5
    /\ calculateBalanceMetric(simulationState.assignments).maxPatientCount = 7

(***************************************************************************)
(* Acuity.                                                                 *)
(***************************************************************************)
Distance(a, b) == IF a < b THEN b - a ELSE a - b

\* C18: in every reachable state every patient's acuity is an integer in
\* 1..5; a tick changes the acuity of a patient it does not discharge by at
\* most 1, and a drift that would take an acuity of 1 or 5 out of the range
\* leaves it as it was.
AcuityStaysInRange ==
    /\ \A k \in DOMAIN simulationState.patients :
           simulationState.patients[k].acuity \in 1..5
    /\ (lastOp = "tick" /\ callInput.fn = "runSimulationTick") =>
           LET survivors == Discharge(callInput.state.patients, callInput.dischargeRolls)
           IN  \A k \in DOMAIN survivors :
                   /\ simulationState.patients[k].id = survivors[k].id
                   /\ Distance(simulationState.patients[k].acuity, survivors[k].acuity) <= 1
                   /\ (/\ callInput.state.isRunning
                       /\ k \in DOMAIN callInput.driftRolls
                       /\ survivors[k].acuity + callInput.driftRolls[k] \notin 1..5)
                          => simulationState.patients[k].acuity = survivors[k].acuity

\* a tick has rolled a drift of -1 for a patient at acuity 1
AcuityStaysInRangeWitness ==
    /\ lastOp = "tick"
    /\ callInput.fn = "runSimulationTick"
    /\ callInput.state.isRunning
    /\ callInput.state.patients # <<>>
    /\ callInput.dischargeRolls = {}
    /\ callInput.state.patients[1].acuity = 1
    /\ 1 \in DOMAIN callInput.driftRolls
    /\ callInput.driftRolls[1] = -1
    /\ simulationState.patients[1].acuity = 1

(***************************************************************************)
(* Qualifications.                                                         *)
(***************************************************************************)
\* C19: in every reachable state the unit of each assignment is one of the
\* qualifications of its staff member, also when ticks have moved staff
\* between units.
AssignmentUnitIsQualification ==
    \A k \in DOMAIN simulationState.assignments :
        simulationState.assignments[k].unit \in
            getStaffById(simulationState.assignments[k].nurseId).qualifications

\* a tick has moved a staff member to a unit other than the roster one, and
\* the member holds a patient of that unit
AssignmentUnitIsQualificationWitness ==
    /\ lastOp = "tick"
    /\ simulationState.tick > 0
    /\ \E k \in DOMAIN simulationState.assignments :
           LET a == simulationState.assignments[k]
           IN  /\ a.unit # getStaffById(a.nurseId).unit
               /\ a.unit \in getStaffById(a.nurseId).qualifications
               /\ \E j \in DOMAIN a.patients : a.patients[j].unit = a.unit

(***************************************************************************)
(* Queries.                                                                *)
(***************************************************************************)
QueryNames ==
    {"getSimulationState", "getBalanceMetric", "getAssignments",
     "getRebalancingSuggestions", "getRecommendations", "getSimulationStats"}

\* C20: a call of a query endpoint (getSimulationState, getBalanceMetric,
\* getAssignments, getRebalancingSuggestions, getRecommendations,
\* getSimulationStats) leaves patients, assignments, tick counter and
\* history as they were, whatever calls came before.
QueriesLeaveState ==
    [][lastOp' \in QueryNames =>
          /\ simulationState'.patients = simulationState.patients
          /\ simulationState'.assignments = simulationState.assignments
          /\ simulationState'.tick = simulationState.tick
          /\ simulationState'.workloadHistory = simulationState.workloadHistory]_vars

(***************************************************************************)
(* The recommendation endpoints.                                           *)
(***************************************************************************)
ListsPatient(assignments, nurseId, patientId) ==
    \E k \in DOMAIN assignments :
        /\ assignments[k].nurseId = nurseId
        /\ \E j \in DOMAIN assignments[k].patients :
               assignments[k].patients[j].id = patientId

\* C21: once staffflow.applySuggestion has been called with the from-nurse,
\* to-nurse and patient of a suggestion computed on the simulation state,
\* the state's assignments list the patient under the target nurse and no
\* longer under the source nurse.
ApplyEndpointMovesPatient ==
    pc = "applied" =>
        /\ ListsPatient(simulationState.assignments, callInput.toNurseId,
                        callInput.patientId)
        /\ ~ListsPatient(simulationState.assignments, callInput.fromNurseId,
                         callInput.patientId)

(***************************************************************************)
(* The dashboard.                                                          *)
(***************************************************************************)
\* the step that serves a request sent by the "Run Single Tick" button
SingleTickServed ==
    /\ callAfter.fn = "runTickMutation"
    /\ callAfter.isPending /\ callAfter.by = "button"
    /\ ~callAfter'.isPending

\* C22: on an initialized simulation, a click on the enabled "Run Single
\* Tick" control (auto-run off, no tick request pending) advances the tick
\* counter by exactly one, also after "Stop Auto-Run" has been clicked.
RunSingleTickAdvances ==
    [][SingleTickServed /\ initialized =>
          simulationState'.tick = simulationState.tick + 1]_vars

(***************************************************************************)
(* Convergence.                                                            *)
(***************************************************************************)
\* C23: once 20 ticks have run after initialize(30), the balance status has
\* been IDEAL after at least one of them, whatever the draws were.
IdealWithinTwentyTicks ==
    (pc = "running" /\ simulationState.tick = ConvergeTicks) =>
        "IDEAL" \in callResult.seen

(***************************************************************************)
(* The solver's order and choice.                                          *)
(***************************************************************************)
AssignDone == pc = "done" /\ callInput.fn = "assignPatientsToNurses"

\* where the patient stands in the list
PositionOf(patients, patient) == CHOOSE k \in DOMAIN patients : patients[k] = patient

\* the list `order` holds the patients highest acuity first, those of equal
\* acuity as they stand in `patients`
DescendingStable(order, patients) ==
    /\ Len(order) = Len(patients)
    /\ \A k \in DOMAIN patients : \E j \in DOMAIN order : order[j] = patients[k]
    /\ \A i, j \in DOMAIN order :
           i < j => \/ order[i].acuity > order[j].acuity
                    \/ /\ order[i].acuity = order[j].acuity
                       /\ PositionOf(patients, order[i]) < PositionOf(patients, order[j])

\* the staff positions a patient may go to: the qualified ones with room, or
\* when there is none, all those with room
PoolOf(staff, patient) ==
    LET room == {k \in DOMAIN staff :
                    /\ staff[k].currentWorkload < staff[k].maxWorkload
                    /\ Len(staff[k].assignedPatients) < staff[k].maxPatients}
        qualified == {k \in room : patient.unit \in staff[k].qualifications}
    IN  IF qualified # {} THEN qualified ELSE room

LowestOf(staff, pool) ==
    {k \in pool : \A i \in pool : staff[k].currentWorkload <= staff[i].currentWorkload}

\* the staff after the first j patients of `order` have had their turn
StaffAfter(input, order, j) ==
    AssignLoop(StaffWithWorkload(input.staff), SubSeq(order, 1, j))

\* turn j gives its patient to one of the lowest pool members: to the last of
\* them in staff order when lastWins, to the first of them otherwise
TurnChooses(input, order, j, lastWins) ==
    LET before == StaffAfter(input, order, j - 1)
        after == StaffAfter(input, order, j)
        lowest == LowestOf(before, PoolOf(before, order[j]))
        changed == {k \in DOMAIN before : after[k] # before[k]}
    IN  IF lowest = {} THEN changed = {}
        ELSE \E k \in lowest :
                /\ changed = {k}
                /\ after[k].assignedPatients = Append(before[k].assignedPatients, order[j])
                /\ after[k].currentWorkload = before[k].currentWorkload + order[j].acuity
                /\ \A i \in lowest : IF lastWins THEN i <= k ELSE i >= k

\* the assignments returned are the staff after the last turn
ReturnsLastTurn(input, order, value) ==
    LET final == StaffAfter(input, order, Len(order))
    IN  /\ Len(value) = Len(final)
        /\ \A k \in DOMAIN final :
               /\ value[k].nurseId = final[k].id
               /\ value[k].patients = final[k].assignedPatients
               /\ value[k].workload = final[k].currentWorkload

\* C24 as amended: assign processes the patients in descending acuity
\* (equal acuity in input order) and gives each to the pool member with the
\* lowest current workload; when several share that lowest workload, the
\* last of them in staff iteration order is chosen.
AssignChoosesLastOfLowest ==
    AssignDone =>
        LET order == SortByAcuityDesc(callInput.patients)
        IN  /\ DescendingStable(order, callInput.patients)
            /\ \A j \in DOMAIN order : TurnChooses(callInput, order, j, TRUE)
            /\ ReturnsLastTurn(callInput, order, callResult.value)

\* C24 as stated: the same, but among several pool members of the lowest
\* workload the first in staff iteration order is chosen.
AssignChoosesFirstOfLowest ==
    AssignDone =>
        LET order == SortByAcuityDesc(callInput.patients)
        IN  /\ DescendingStable(order, callInput.patients)
            /\ \A j \in DOMAIN order : TurnChooses(callInput, order, j, FALSE)
            /\ ReturnsLastTurn(callInput, order, callResult.value)

\* an assignment of patients given in ascending acuity in which one turn
\* found several lowest pool members and another found exactly one
AssignChoosesLastOfLowestWitness ==
    /\ AssignDone
    /\ LET order == SortByAcuityDesc(callInput.patients)
           lowestAt(j) == LET before == StaffAfter(callInput, order, j - 1)
                          IN  LowestOf(before, PoolOf(before, order[j]))
       IN  /\ order # callInput.patients
           /\ \E j \in DOMAIN order : Cardinality(lowestAt(j)) > 1
           /\ \E j \in DOMAIN order : Cardinality(lowestAt(j)) = 1

(***************************************************************************)
(* The capacity of a suggestion's target.                                  *)
(***************************************************************************)
SuggestDone == pc = "done" /\ callInput.fn = "generateRebalancingSuggestions"

\* the positions of the suggestions, among the first `upTo`, that name the target
SuggestedTo(suggestions, toNurseId, upTo) ==
    {i \in 1..upTo : suggestions[i].toNurseId = toNurseId}

TargetsOf(suggestions) == {suggestions[i].toNurseId : i \in DOMAIN suggestions}

\* the record of the staff member in the argument as passed
OriginalOf(nurseId) ==
    callInput.assignments[CHOOSE k \in DOMAIN callInput.assignments :
                              callInput.assignments[k].nurseId = nurseId]

\* C25: within one suggest call, for every target staff member, its
\* original patient count plus the number of suggestions naming it as
\* target does not exceed its maxPatients.
TargetCountNotDoubleBooked ==
    SuggestDone =>
        \A t \in TargetsOf(callResult.value) :
            Len(OriginalOf(t).patients)
                + Cardinality(SuggestedTo(callResult.value, t, Len(callResult.value)))
              <= getStaffById(t).maxPatients

\* the acuity of the patient of that id in the argument as passed
AcuityOfPatient(patientId) ==
    LET held == UNION {{callInput.assignments[k].patients[j] :
                           j \in DOMAIN callInput.assignments[k].patients} :
                       k \in DOMAIN callInput.assignments}
    IN  (CHOOSE p \in held : p.id = patientId).acuity

RECURSIVE SuggestedAcuity(_, _)
SuggestedAcuity(suggestions, positions) ==
    IF positions = {} THEN 0
    ELSE LET i == CHOOSE i \in positions : TRUE
         IN  AcuityOfPatient(suggestions[i].patientId)
                 + SuggestedAcuity(suggestions, positions \ {i})

\* the target's original workload plus the acuities suggested to it by the
\* suggestions up to and including the i-th
RunningTotal(suggestions, i) ==
    OriginalOf(suggestions[i].toNurseId).workload
        + SuggestedAcuity(suggestions,
                          SuggestedTo(suggestions, suggestions[i].toNurseId, i))

\* C26: within one suggest call, for every target staff member, its
\* original workload plus the acuities of all patients suggested to it stays
\* strictly below its maxWorkload, and each suggestion's expectedToWorkload
\* is that running total as the suggestion is emitted, earlier suggestions
\* to the same target counted.
TargetWorkloadRunningTotal ==
    SuggestDone =>
        \A i \in DOMAIN callResult.value :
            /\ callResult.value[i].expectedToWorkload = RunningTotal(callResult.value, i)
            /\ RunningTotal(callResult.value, i)
                   < getStaffById(callResult.value[i].toNurseId).maxWorkload

\* a call that suggested two patients to one target and a patient to another
TargetWorkloadRunningTotalWitness ==
    /\ SuggestDone
    /\ \E i, j \in DOMAIN callResult.value :
           /\ i < j
           /\ callResult.value[i].toNurseId = callResult.value[j].toNurseId
           /\ callResult.value[j].expectedToWorkload
                  > OriginalOf(callResult.value[j].toNurseId).workload
                        + AcuityOfPatient(callResult.value[j].patientId)
    /\ Cardinality(TargetsOf(callResult.value)) > 1

(***************************************************************************)
(* The overload flag.                                                      *)
(***************************************************************************)
\* C27: in every reachable state each assignment's isOverloaded flag is
\* true exactly when its workload exceeds its maxWorkload or its patient
\* count exceeds its maxPatients.
OverloadedFlagIsCurrent ==
    \A k \in DOMAIN simulationState.assignments :
        LET a == simulationState.assignments[k]
        IN  a.isOverloaded <=>
                \/ a.workload > getStaffById(a.nurseId).maxWorkload
                \/ Len(a.patients) > getStaffById(a.nurseId).maxPatients

(***************************************************************************)
(* The auto-apply schedule.                                                *)
(***************************************************************************)
\* the state a tick has just stored
TickStored == pc = "running" /\ lastOp = "tick"

\* what steps 5-7 of the tick make of the patients it stores: the detector's
\* suggestions and the solver's records as the detector leaves them
DetectorOutput ==
    LET assignments == assignPatientsToNurses(simulationState.patients,
                           reassignStaffToUnits(simulationState.patients))
    IN  [suggestions |-> generateRebalancingSuggestions(assignments),
         assignments |-> AssignmentsAfterSuggest(assignments)]

\* ceil(1 + 2f) and the test gap > 3 - 2f for f = min(t / 20, 1), in twentieths
CeilingOfCount(t) == (20 + 2 * Min2(t, 20) + 19) \div 20

GapOf(suggestion) ==
    Distance(suggestion.expectedFromWorkload, suggestion.expectedToWorkload)

GapAbove(suggestion, t) == 20 * GapOf(suggestion) > 60 - 2 * Min2(t, 20)

\* the suggestions among the first ceil(1 + 2f) whose gap passes, in order
ChosenAt(suggestions, t) ==
    SelectSeq(SubSeq(suggestions, 1, Min2(Len(suggestions), CeilingOfCount(t))),
              LAMBDA s : GapAbove(s, t))

RECURSIVE TransfersApplied(_, _)
TransfersApplied(assignments, chosen) ==
    IF chosen = <<>> THEN assignments
    ELSE TransfersApplied(
             applyRebalancingSuggestion(assignments, chosen[1].fromNurseId,
                                        chosen[1].toNurseId, chosen[1].patientId),
             Tail(chosen))

\* C28: the tick that advances the counter to t applies, of the detector's
\* suggestions in output order, exactly those among the first ceil(1 + 2f)
\* whose gap |expectedFromWorkload - expectedToWorkload| exceeds 3 - 2f,
\* f = min(t / 20, 1); so it applies at most 3 transfers and none whose gap
\* is 1 or less.
AutoApplyFollowsSchedule ==
    TickStored =>
        LET out == DetectorOutput
            chosen == ChosenAt(out.suggestions, simulationState.tick)
        IN  /\ simulationState.assignments = TransfersApplied(out.assignments, chosen)
            /\ Len(chosen) <= 3
            /\ \A i \in DOMAIN chosen : GapOf(chosen[i]) > 1

\* a tick at full convergence whose detector made more suggestions than the
\* schedule considers: of the three considered it applied some and passed
\* over one whose gap is 1 or less
AutoApplyFollowsScheduleWitness ==
    /\ TickStored
    /\ simulationState.tick >= 20
    /\ LET out == DetectorOutput
           count == CeilingOfCount(simulationState.tick)
           chosen == ChosenAt(out.suggestions, simulationState.tick)
       IN  /\ count = 3
           /\ Len(out.suggestions) > count
           /\ chosen # <<>>
           /\ \E i \in 1..count : GapOf(out.suggestions[i]) <= 1
           /\ simulationState.assignments # out.assignments

\* the stored assignments are the detector's output with none or one of its
\* suggestions applied
AtMostOneApplied ==
    LET out == DetectorOutput
    IN  \/ simulationState.assignments = out.assignments
        \/ \E i \in DOMAIN out.suggestions :
               simulationState.assignments =
                   TransfersApplied(out.assignments, <<out.suggestions[i]>>)

\* C29: the first tick after initialize (tick counter 0 on entry) applies at
\* most one suggestion, the auto-apply count being 1 at tick 0.
FirstTickAppliesAtMostOne ==
    (TickStored /\ simulationState.tick = 1) => AtMostOneApplied

\* C30: in every reachable state every patient's required-skills list is
\* exactly its current unit, also after a tick's unit-transfer step has moved
\* the patient to another unit.
RequiredSkillsIsCurrentUnit ==
    \A k \in DOMAIN simulationState.patients :
        simulationState.patients[k].requiredSkills = <<simulationState.patients[k].unit>>

(***************************************************************************)
(* The solver's capacity tests.                                            *)
(***************************************************************************)
\* the staff before the first turn, after the first turn, ..., after the last
RECURSIVE StaffTrace(_, _)
StaffTrace(sw, sorted) ==
    IF sorted = <<>> THEN <<sw>>
    ELSE <<sw>> \o StaffTrace(AssignOne(sw, sorted[1]), Tail(sorted))

TurnsOf(input) ==
    StaffTrace(StaffWithWorkload(input.staff), SortByAcuityDesc(input.patients))

\* the assignments returned are the staff after the last turn
OutputOfTurns(turns, value) ==
    LET final == turns[Len(turns)]
    IN  /\ Len(value) = Len(final)
        /\ \A k \in DOMAIN final :
               /\ value[k].nurseId = final[k].id
               /\ value[k].patients = final[k].assignedPatients
               /\ value[k].workload = final[k].currentWorkload

\* the staff positions that turn j changed
PlacedAt(turns, j) == {k \in DOMAIN turns[j] : turns[j + 1][k] # turns[j][k]}

\* position k of the staff has workload and patient count below its limits
RoomAt(staff, k) ==
    /\ staff[k].currentWorkload < staff[k].maxWorkload
    /\ Len(staff[k].assignedPatients) < staff[k].maxPatients

\* C31: assign places a patient only on a staff member whose workload is
\* below maxWorkload and whose patient count is below maxPatients at that
\* moment; so in its output nobody holds more than maxPatients patients and
\* nobody's workload exceeds maxWorkload by more than 4.
AssignPlacesWithinCapacity ==
    AssignDone =>
        LET order == SortByAcuityDesc(callInput.patients)
            turns == TurnsOf(callInput)
            value == callResult.value
        IN  /\ OutputOfTurns(turns, value)
            /\ \A j \in DOMAIN order : \A k \in PlacedAt(turns, j) :
                   /\ RoomAt(turns[j], k)
                   /\ turns[j + 1][k].assignedPatients =
                          Append(turns[j][k].assignedPatients, order[j])
            /\ \A k \in DOMAIN value :
                   /\ Len(value[k].patients) <= callInput.staff[k].maxPatients
                   /\ value[k].workload <= callInput.staff[k].maxWorkload + 4

\* an output in which one nurse is at the patient-count limit and another is
\* above the workload limit
AssignPlacesWithinCapacityWitness ==
    /\ AssignDone
    /\ \E k \in DOMAIN callResult.value :
           Len(callResult.value[k].patients) = callInput.staff[k].maxPatients
    /\ \E k \in DOMAIN callResult.value :
           callResult.value[k].workload > callInput.staff[k].maxWorkload

\* C32: whenever assign places a patient on a staff member who is not
\* qualified for the patient's unit, no staff member qualified for that unit
\* had workload capacity and patient-count capacity at that moment.
UnqualifiedOnlyWhenNoQualifiedHasRoom ==
    AssignDone =>
        LET order == SortByAcuityDesc(callInput.patients)
            turns == TurnsOf(callInput)
        IN  /\ OutputOfTurns(turns, callResult.value)
            /\ \A j \in DOMAIN order : \A k \in PlacedAt(turns, j) :
                   order[j].unit \notin callInput.staff[k].qualifications =>
                       \A i \in DOMAIN callInput.staff :
                           order[j].unit \in callInput.staff[i].qualifications
                               => ~RoomAt(turns[j], i)

\* an output that lists a patient with a nurse not qualified for its unit and
\* another patient with a qualified one
UnqualifiedOnlyWhenNoQualifiedHasRoomWitness ==
    /\ AssignDone
    /\ \E k \in DOMAIN callResult.value : \E i \in DOMAIN callResult.value[k].patients :
           callResult.value[k].patients[i].unit \notin callInput.staff[k].qualifications
    /\ \E k \in DOMAIN callResult.value : \E i \in DOMAIN callResult.value[k].patients :
           callResult.value[k].patients[i].unit \in callInput.staff[k].qualifications

\* the patients of the input that no assignment of the output lists
LeftOut(input, value) ==
    {k \in DOMAIN input.patients : ListedCount(value, input.patients[k].id) = 0}

\* C33: assign leaves a patient out only when, at that patient's turn, no
\* staff member at all had workload below maxWorkload together with patient
\* count below maxPatients; so whenever the output leaves a patient
\* unassigned, every staff member in it has workload >= maxWorkload or
\* patient count = maxPatients.
LeftOutOnlyWhenNobodyHasRoom ==
    AssignDone =>
        LET order == SortByAcuityDesc(callInput.patients)
            turns == TurnsOf(callInput)
            value == callResult.value
        IN  /\ OutputOfTurns(turns, value)
            /\ \A j \in DOMAIN order :
                   PlacedAt(turns, j) = {} <=> \A k \in DOMAIN turns[j] : ~RoomAt(turns[j], k)
            /\ \A j \in DOMAIN order :
                   PlacedAt(turns, j) = {} <=> ListedCount(value, order[j].id) = 0
            /\ LeftOut(callInput, value) # {} =>
                   \A k \in DOMAIN value :
                       \/ value[k].workload >= callInput.staff[k].maxWorkload
                       \/ Len(value[k].patients) = callInput.staff[k].maxPatients

\* an output that leaves a patient out and lists others
LeftOutOnlyWhenNobodyHasRoomWitness ==
    /\ AssignDone
    /\ LeftOut(callInput, callResult.value) # {}
    /\ \E k \in DOMAIN callInput.patients :
           ListedCount(callResult.value, callInput.patients[k].id) = 1

(***************************************************************************)
(* The detector's sources and targets.                                     *)
(***************************************************************************)
\* the position of the first suggestion that has the source of the i-th: the
\* suggestions of one source stand together, in the order of the sources
FirstOfSource(suggestions, i) ==
    CHOOSE j \in 1..i :
        /\ suggestions[j].fromNurseId = suggestions[i].fromNurseId
        /\ \A h \in 1..(j - 1) : suggestions[h].fromNurseId # suggestions[i].fromNurseId

RecordOf(input, nurseId) ==
    input[CHOOSE k \in DOMAIN input : input[k].nurseId = nurseId]

\* the acuity of the patient of that id in the input
AcuityIn(input, patientId) ==
    LET held == UNION {{input[k].patients[j] : j \in DOMAIN input[k].patients} :
                       k \in DOMAIN input}
    IN  (CHOOSE p \in held : p.id = patientId).acuity

RECURSIVE SumSuggested(_, _, _)
SumSuggested(input, suggestions, positions) ==
    IF positions = {} THEN 0
    ELSE LET i == CHOOSE i \in positions : TRUE
         IN  AcuityIn(input, suggestions[i].patientId)
                 + SumSuggested(input, suggestions, positions \ {i})

\* the target of the i-th suggestion as it was when the pool of that
\* suggestion's source was built: its record in the input and what the
\* earlier sources' suggestions put on it
TargetWhenPooled(input, suggestions, i) ==
    LET t == suggestions[i].toNurseId
        earlier == SuggestedTo(suggestions, t, FirstOfSource(suggestions, i) - 1)
    IN  [workload |-> RecordOf(input, t).workload
                          + SumSuggested(input, suggestions, earlier),
         count |-> Len(RecordOf(input, t).patients) + Cardinality(earlier)]

\* the positions of the input that were in the pool built for the source of
\* the i-th suggestion
PoolWhenBuilt(input, suggestions, i) ==
    {k \in DOMAIN input :
        LET t == input[k].nurseId
            earlier == SuggestedTo(suggestions, t, FirstOfSource(suggestions, i) - 1)
        IN  /\ t # suggestions[i].fromNurseId
            /\ 10 * (input[k].workload + SumSuggested(input, suggestions, earlier))
                   < 6 * getStaffById(t).maxWorkload
            /\ Len(input[k].patients) + Cardinality(earlier) < getStaffById(t).maxPatients}

\* the unit of the patient of that id in the input
UnitIn(input, patientId) ==
    LET held == UNION {{input[k].patients[j] : j \in DOMAIN input[k].patients} :
                       k \in DOMAIN input}
    IN  (CHOOSE p \in held : p.id = patientId).unit

FirstOf(positions) == CHOOSE k \in positions : \A i \in positions : k <= i

\* the suggestions are what the claim says of a call on the input
FromOverloadedToPool(input, suggestions) ==
    /\ \A i \in DOMAIN suggestions :
           /\ RecordOf(input, suggestions[i].fromNurseId).isOverloaded
           /\ suggestions[i].toNurseId # suggestions[i].fromNurseId
           /\ 10 * TargetWhenPooled(input, suggestions, i).workload
                  < 6 * getStaffById(suggestions[i].toNurseId).maxWorkload
           /\ TargetWhenPooled(input, suggestions, i).count
                  < getStaffById(suggestions[i].toNurseId).maxPatients
    /\ \A i, j \in DOMAIN suggestions :
           suggestions[i].patientId = suggestions[j].patientId => i = j
    /\ (\A k \in DOMAIN input : ~input[k].isOverloaded) => suggestions = <<>>

\* C34: every suggestion returned by suggest has as source an assignment
\* flagged overloaded and as target a different staff member that, when the
\* pool for that source was built, had workload below 60% of its maxWorkload
\* and patient count below its maxPatients; each patient of the input is
\* named by at most one suggestion, and if no assignment is flagged
\* overloaded the result is empty.  Stated of the call that
\* getRebalancingSuggestions makes on the stored assignments.
SuggestionsFromOverloadedToPool ==
    FromOverloadedToPool(simulationState.assignments,
                         generateRebalancingSuggestions(simulationState.assignments))

\* C35: the target of a suggestion is the first pool member whose
\* qualifications include the patient's unit if the pool has one, and
\* otherwise the first pool member; skillMatch is true exactly when the
\* target's qualifications include the patient's unit, so a suggestion with
\* skillMatch false is emitted only when no pool member was qualified.
TargetIsFirstQualifiedOrFirst ==
    SuggestDone =>
        LET input == callInput.assignments
            suggestions == callResult.value
        IN  \A i \in DOMAIN suggestions :
                LET pool == PoolWhenBuilt(input, suggestions, i)
                    unit == UnitIn(input, suggestions[i].patientId)
                    qualified == {k \in pool :
                                     unit \in getStaffById(input[k].nurseId).qualifications}
                    target == getStaffById(suggestions[i].toNurseId)
                IN  /\ pool # {}
                    /\ suggestions[i].toNurseId =
                           input[FirstOf(IF qualified # {} THEN qualified ELSE pool)].nurseId
                    /\ suggestions[i].skillMatch <=> unit \in target.qualifications
                    /\ ~suggestions[i].skillMatch => qualified = {}

\* a call that returned a suggestion without skill match and one whose
\* qualified target was not the first of its pool
TargetIsFirstQualifiedOrFirstWitness ==
    /\ SuggestDone
    /\ \E i \in DOMAIN callResult.value : ~callResult.value[i].skillMatch
    /\ \E i \in DOMAIN callResult.value :
           /\ callResult.value[i].skillMatch
           /\ callResult.value[i].toNurseId #
                  callInput.assignments[FirstOf(PoolWhenBuilt(callInput.assignments,
                                                    callResult.value, i))].nurseId

(***************************************************************************)
(* The staff reassignment.                                                 *)
(***************************************************************************)
ReassignDone == pc = "done" /\ callInput.fn = "reassignStaffToUnits"

\* the staff and the per-unit lists before the turn of the first unit, after
\* it, ..., after the turn of the last unit
RECURSIVE ReassignTrace(_, _, _)
ReassignTrace(acc, units, patients) ==
    IF units = <<>> THEN <<acc>>
    ELSE <<acc>> \o ReassignTrace(ReassignLoop(acc, <<units[1]>>, patients),
                                  Tail(units), patients)

ReassignTurns(patients) ==
    ReassignTrace(
        [staff |-> STATIC_STAFF,
         staffByUnit |-> [u \in UnitSet |->
             SelectSeq(Indices(STATIC_STAFF), LAMBDA k : STATIC_STAFF[k].unit = u)]],
        Units, patients)

StaffOfUnit(staff, unit) == {k \in DOMAIN staff : staff[k].unit = unit}

RECURSIVE SumMaxOf(_, _)
SumMaxOf(staff, positions) ==
    IF positions = {} THEN 0
    ELSE LET k == CHOOSE k \in positions : TRUE
         IN  staff[k].maxWorkload + SumMaxOf(staff, positions \ {k})

AcuityTotal(patients, unit) == SumAcuity(SelectSeq(patients, LAMBDA p : p.unit = unit))

\* totalAcuity / n > 0.7 * (sumMax / n) and totalAcuity / n < 0.4 * (sumMax / n)
DemandAbove(staff, patients, unit) ==
    10 * AcuityTotal(patients, unit) > 7 * SumMaxOf(staff, StaffOfUnit(staff, unit))

DemandBelow(staff, patients, unit) ==
    10 * AcuityTotal(patients, unit) < 4 * SumMaxOf(staff, StaffOfUnit(staff, unit))

\* C36: in one staff reassignment each unit whose average per-staff demand
\* exceeds 70% of its average capacity receives at most one staff member,
\* taken only from another unit that at that moment has at least 2 staff
\* and average workload below 40% of its capacity, and only a member
\* qualified for the receiving unit; no unit that has staff in the roster is
\* left with zero staff.
ReassignMovesOneFromDonor ==
    ReassignDone =>
        LET patients == callInput.patients
            turns == ReassignTurns(patients)
            value == callResult.value
        IN  /\ value = turns[Len(turns)].staff
            /\ \A j \in DOMAIN Units :
                   LET before == turns[j].staff
                       after == turns[j + 1].staff
                       moved == {k \in DOMAIN before : after[k] # before[k]}
                   IN  /\ Cardinality(moved) <= 1
                       /\ \A k \in moved :
                              /\ after[k] = [before[k] EXCEPT !.unit = Units[j]]
                              /\ before[k].unit # Units[j]
                              /\ StaffOfUnit(before, Units[j]) # {}
                              /\ DemandAbove(before, patients, Units[j])
                              /\ Cardinality(StaffOfUnit(before, before[k].unit)) >= 2
                              /\ DemandBelow(before, patients, before[k].unit)
                              /\ Units[j] \in before[k].qualifications
            /\ \A unit \in UnitSet :
                   StaffOfUnit(STATIC_STAFF, unit) # {} => StaffOfUnit(value, unit) # {}

\* a reassignment in which two units received a staff member, one of them
\* from a unit that was left with one
ReassignMovesOneFromDonorWitness ==
    /\ ReassignDone
    /\ Cardinality({k \in DOMAIN STATIC_STAFF :
                       callResult.value[k].unit # STATIC_STAFF[k].unit}) >= 2
    /\ \E unit \in UnitSet :
           /\ Cardinality(StaffOfUnit(callResult.value, unit)) = 1
           /\ Cardinality(StaffOfUnit(STATIC_STAFF, unit)) > 1

(***************************************************************************)
(* Discharge and admission within a tick.                                  *)
(***************************************************************************)
IdsOf(patients) == {patients[k].id : k \in DOMAIN patients}

\* the ids the tick's admission loop gives: patient-<Date.now()>-<i>
AdmittedIds == {<<callInput.clock, i - 1>> : i \in DOMAIN callInput.admissions}

\* the ids of the patients the tick's discharge roll hit
DischargedIds == {callInput.state.patients[k].id : k \in callInput.dischargeRolls}

\* C37: within a tick, discharge is decided on the pre-tick population
\* before admission, drift and transfer: a patient admitted in a tick is
\* always in the post-tick patient list, and a patient discharged in a tick
\* appears neither in the post-tick patient list nor in any assignment's
\* patient list.
DischargedGoneAdmittedPresent ==
    callInput.fn = "runSimulationTick" =>
        /\ AdmittedIds \subseteq IdsOf(simulationState.patients)
        /\ Len(simulationState.patients) =
               Len(Discharge(callInput.state.patients, callInput.dischargeRolls))
                   + Len(callInput.admissions)
        /\ \A id \in DischargedIds :
               /\ id \notin IdsOf(simulationState.patients)
               /\ ListedCount(simulationState.assignments, id) = 0

(***************************************************************************)
(* The window of the history.                                              *)
(***************************************************************************)
\* C38: after the tick that brings the counter to t the history consists of
\* exactly the snapshots of ticks max(1, t - 49)..t in increasing order: its
\* length is min(t, 50), consecutive entries have consecutive tick numbers,
\* the last entry carries tick number t, and each snapshot has one
\* utilization entry per roster staff member.
HistoryIsLastFiftyTicks ==
    lastOp = "tick" =>
        LET t == simulationState.tick
            history == simulationState.workloadHistory
        IN  /\ Len(history) = Min2(t, 50)
            /\ \A i \in DOMAIN history :
                   /\ history[i].tick = Max2(1, t - 49) + i - 1
                   /\ history[i].nurseWorkloads = NurseIds
            /\ \A i \in 1..(Len(history) - 1) : history[i + 1].tick = history[i].tick + 1
            /\ t > 0 => history[Len(history)].tick = t

\* the tick that brought the counter to 51 has dropped the snapshot of tick 1
HistoryIsLastFiftyTicksWitness ==
    /\ lastOp = "tick"
    /\ simulationState.tick = 51
    /\ simulationState.workloadHistory[1].tick = 2
    /\ simulationState.workloadHistory[50].tick = 51

(***************************************************************************)
(* C39.  The alert of a record follows the patient count first.            *)
(***************************************************************************)
\* the alert the record's own workload and patient list call for when the
\* patient count is looked at first
CountFirstAlert(a) ==
    IF Len(a.patients) > getStaffById(a.nurseId).maxPatients THEN "Too many patients!"
    ELSE IF a.workload > getStaffById(a.nurseId).maxWorkload THEN "Workload too high!"
    ELSE ""

\* the records a call of applySuggestion built anew: the source that holds
\* the patient, and the target when the source holds the patient
RebuiltByApply(k) ==
    LET assignments == callInput.assignments
        suggestion == callInput.suggestion
        from == FindAssignment(assignments, suggestion.fromNurseId)
    IN  /\ from # <<>>
        /\ FindPatient(from[1].patients, suggestion.patientId) # <<>>
        /\ assignments[k].nurseId \in {suggestion.fromNurseId, suggestion.toNurseId}

\* C39: every assignment record that applySuggestion rebuilds carries the
\* patient-count message when its patient count is above maxPatients, also
\* when its workload is above maxWorkload, the workload message when only
\* the workload is above maxWorkload, and no message otherwise.
ApplyAlertIsCountFirst ==
    (pc = "done" /\ callResult.fn = "applySuggestion") =>
        \A k \in DOMAIN callResult.value :
            RebuiltByApply(k) => callResult.value[k].alert = CountFirstAlert(callResult.value[k])

\* the same rule for the records assignPatientsToNurses returns
AssignAlertIsCountFirst ==
    (pc = "done" /\ callResult.fn = "assignPatientsToNurses") =>
        \A k \in DOMAIN callResult.value :
            callResult.value[k].alert = CountFirstAlert(callResult.value[k])

\* the same rule for the initial assignment that initializeSimulation stores
InitialAlertIsCountFirst ==
    lastOp = "initialize" =>
        \A k \in DOMAIN simulationState.assignments :
            simulationState.assignments[k].alert
                = CountFirstAlert(simulationState.assignments[k])

(***************************************************************************)
(* C40.  One decaying factor scales the four chances of a tick.            *)
(***************************************************************************)
DecayDone == pc = "done" /\ callResult.fn = "runSimulationTick chances"

\* 1 - 0.7 * min(t / 20, 1), every operation rounded as the doubles round it
DecayFactor(t) ==
    DoubleMinus(DoubleOfRatio(1, 1),
                DoubleTimes(DoubleOfRatio(7, 10),
                            DoubleMin(DoubleOfRatio(t, 20), DoubleOfRatio(1, 1))))

\* the double next above a
NextDoubleAbove(a) == [m |-> Significand(AddLimbs(a.m, <<1>>, 0)), x |-> a.x]

\* the chances of the tick that advances the counter to t are the base
\* chances times DecayFactor(t), which is not above DecayFactor(t - 1) and
\* not below 0.3
ChancesScaledByDecayFactor ==
    LET t == callResult.currentTick
    IN  /\ callResult.randomnessFactor = DecayFactor(t)
        /\ callResult.adjustedDischargeChance
               = DoubleTimes(baseDischargeChance(callInput.acuity), DecayFactor(t))
        /\ callResult.adjustedAdmissionChance = DoubleTimes(DoubleOfRatio(3, 10), DecayFactor(t))
        /\ callResult.acuityChangeChance = DoubleTimes(DoubleOfRatio(2, 10), DecayFactor(t))
        /\ callResult.transferChance = DoubleTimes(DoubleOfRatio(5, 100), DecayFactor(t))
        /\ t > 1 => ~DoubleLess(DecayFactor(t - 1), DecayFactor(t))
        /\ ~DoubleLess(DecayFactor(t), DoubleOfRatio(3, 10))

\* C40 as stated: in the tick that advances the counter to t the discharge,
\* admission, acuity-drift and unit-transfer base chances are all multiplied
\* by the factor 1 - 0.7*min(t/20, 1), which is non-increasing in t, never
\* below 0.3, and exactly 0.3 for every t >= 20.
DecayFactorIsThreeTenthsFromTwenty ==
    DecayDone =>
        /\ ChancesScaledByDecayFactor
        /\ callResult.currentTick >= 20 => callResult.randomnessFactor = DoubleOfRatio(3, 10)

\* C40, amended: the four base chances are all multiplied by the factor
\* 1 - 0.7*min(t/20, 1) as the doubles compute it, which is non-increasing
\* in t, never below 0.3, and for every t >= 20 the one value 1 - 0.7 of the
\* doubles, which is the double next above 0.3.
DecayFactorIsNextAboveThreeTenthsFromTwenty ==
    DecayDone =>
        /\ ChancesScaledByDecayFactor
        /\ callResult.currentTick >= 20 =>
               /\ callResult.randomnessFactor
                      = DoubleMinus(DoubleOfRatio(1, 1), DoubleOfRatio(7, 10))
               /\ callResult.randomnessFactor = NextDoubleAbove(DoubleOfRatio(3, 10))

DecayFactorIsNextAboveThreeTenthsFromTwentyWitness ==
    /\ DecayDone
    /\ callResult.currentTick = 25
    /\ callInput.acuity = 1
    /\ DoubleLess(callResult.acuityChangeChance, DoubleOfRatio(2, 10))
    /\ DoubleLess(DoubleOfRatio(3, 10), callResult.randomnessFactor)

====
